---- MODULE Spec2Model ----
(***************************************************************************)
(* Model of the THANOS file-organization pipeline (src/agents/tools):      *)
(*   list-files.py      ListFilesTool      cursor-paged scope enumeration  *)
(*   guard-rail.py      GuardRailTool      pre-flight admission gate       *)
(*   classify-file.py   ClassifyFileTool   multi-signal classification     *)
(*   extract-exif.py    ExtractExifTool    EXIF metadata extraction        *)
(*   suggest-folder.py  SuggestFolderTool  destination-path planning       *)
(* and of the JSON function wrappers around them.                          *)
(*                                                                         *)
(* Python strings are TLA+ strings; Python's None is the value None.       *)
(* Each tool has its own specification (SpecList, SpecGuard, SpecSuggest,  *)
(* SpecClassify, SpecWrap, SpecGps) over its own variables; SpecPipeline   *)
(* runs the classifier and then the planner on its result, SpecVaried the  *)
(* classifier twice with one argument changed, SpecPhoto the planner on    *)
(* photos, SpecReorder the planner twice with the tags in either order,    *)
(* and SpecExif the extractor and then the classifier on its record.       *)
(***************************************************************************)
EXTENDS Integers, Sequences, FiniteSets, TLC

VARIABLES
    \* ---- ListFilesTool session (list-files.py)
    lfScope,      \* the scope string of the session
    lfEntries,    \* the scope's snapshot: os.walk's entries in traversal order
    lfFilters,    \* the filters dict of the session
    lfLimit,      \* the limit of the session
    lfCursor,     \* the cursor the next call is made with
    lfPages,      \* concatenation of result["files"] of the calls made so far
    lfResp,       \* the result of the last call (NoResponse before the first)
    lfPc,         \* "ready" (a call may be made) | "done" (has_more was false)
    \* ---- GuardRailTool.execute (guard-rail.py)
    grReq,        \* the request and the providers' answers of the last call
    grRes,        \* the verdict returned (None before the first call)
    \* ---- SuggestFolderTool.execute (suggest-folder.py)
    now,          \* datetime.now(): [year, month]
    sfReq,        \* the inputs of the last call
    sfOut,        \* its outcome
    sfOut2,       \* the outcome of a second call with the same inputs
    sfPc,         \* "idle" | "called" | "repeated"
    \* ---- ClassifyFileTool.execute (classify-file.py)
    hashSeed,     \* the hash seed of the process: fixes the order of list(set(...))
    cfReq,        \* the inputs of the last call
    cfOut,        \* the result it returned
    cfOut2,       \* the result of a second call with the same inputs
    cfPc,         \* "idle" | "called" | "restarted" | "repeated"
    \* ---- the JSON function wrappers
    wrCall,       \* [fn, input] of the last wrapper call
    wrOut,        \* its outcome: a response or an escaped exception
    \* ---- ExtractExifTool._extract_gps (extract-exif.py)
    exRaw,        \* the raw EXIF dict handed to _extract_gps
    exGps,        \* what it returned (NoGps stands for None)
    exPc,         \* "idle" | "ready" (a dict is at hand) | "done" | "extracted"
    exOut         \* the result of ExtractExifTool.execute

lfVars == <<lfScope, lfEntries, lfFilters, lfLimit, lfCursor, lfPages, lfResp, lfPc>>
grVars == <<grReq, grRes>>
sfVars == <<sfReq, sfOut, sfOut2, sfPc>>
cfVars == <<hashSeed, cfReq, cfOut, cfOut2, cfPc>>
wrVars == <<wrCall, wrOut>>
exVars == <<exRaw, exGps, exPc, exOut>>
vars == <<lfVars, grVars, now, sfVars, cfVars, wrVars, exVars>>

\* Python's None
None == "<None>"

(***************************************************************************)
(* Python string operations                                                *)
(***************************************************************************)
LowerChars == "abcdefghijklmnopqrstuvwxyz"
UpperChars == "ABCDEFGHIJKLMNOPQRSTUVWXYZ"

CharAt(s, i) == SubSeq(s, i, i)

\* the index of the one-character string c in alphabet, or 0
IndexIn(c, alphabet) ==
    IF \E i \in 1..Len(alphabet) : CharAt(alphabet, i) = c
    THEN CHOOSE i \in 1..Len(alphabet) : CharAt(alphabet, i) = c
    ELSE 0

\* the letters, and the case tables of str.lower and str.upper
LowerSet == {CharAt(LowerChars, i) : i \in 1..Len(LowerChars)}
UpperSet == {CharAt(UpperChars, i) : i \in 1..Len(UpperChars)}
ToLowerTable == [c \in UpperSet |-> CharAt(LowerChars, IndexIn(c, UpperChars))]
ToUpperTable == [c \in LowerSet |-> CharAt(UpperChars, IndexIn(c, LowerChars))]

IsLowerChar(c) == c \in LowerSet
IsUpperChar(c) == c \in UpperSet
IsAlphaChar(c) == IsLowerChar(c) \/ IsUpperChar(c)
LowerChar(c) == IF IsUpperChar(c) THEN ToLowerTable[c] ELSE c
UpperChar(c) == IF IsLowerChar(c) THEN ToUpperTable[c] ELSE c

\* str.lower()
RECURSIVE Lower(_)
Lower(s) ==
    IF s = "" THEN ""
    ELSE IF Len(s) = 1 THEN LowerChar(s)
    ELSE Lower(SubSeq(s, 1, Len(s) \div 2)) \o Lower(SubSeq(s, (Len(s) \div 2) + 1, Len(s)))

\* str.capitalize(): first character upper-cased, the rest lower-cased
Capitalize(s) == IF s = "" THEN "" ELSE UpperChar(CharAt(s, 1)) \o Lower(SubSeq(s, 2, Len(s)))

\* str.title(): a letter is upper-cased after a non-letter, lower-cased after a letter
RECURSIVE TitleFrom(_, _)
TitleFrom(s, prevAlpha) ==
    IF s = "" THEN ""
    ELSE LET c == CharAt(s, 1)
         IN  (IF prevAlpha THEN LowerChar(c) ELSE UpperChar(c))
                 \o TitleFrom(SubSeq(s, 2, Len(s)), IsAlphaChar(c))
Title(s) == TitleFrom(s, FALSE)

\* str.replace(old, new) for a one-character old
RECURSIVE Replace(_, _, _)
Replace(s, old, new) ==
    IF s = "" THEN ""
    ELSE (IF CharAt(s, 1) = old THEN new ELSE CharAt(s, 1)) \o Replace(SubSeq(s, 2, Len(s)), old, new)

\* t in s
Contains(s, t) == \E i \in 1..(Len(s) - Len(t) + 1) : SubSeq(s, i, i + Len(t) - 1) = t

\* s.startswith(t)
StartsWith(s, t) == Len(s) >= Len(t) /\ SubSeq(s, 1, Len(t)) = t

\* " ".join(seq)
RECURSIVE JoinWith(_, _)
JoinWith(sep, seq) ==
    IF seq = <<>> THEN ""
    ELSE IF Len(seq) = 1 THEN seq[1]
    ELSE seq[1] \o sep \o JoinWith(sep, Tail(seq))

\* f"{n:02d}" for n >= 0
TwoDigits(n) == IF n < 10 THEN "0" \o ToString(n) ELSE ToString(n)

\* os.path.splitext(name)[1]: from the last dot on, unless that dot belongs to the
\* leading dots of the name
LeadingDots(name) ==
    IF \E i \in 1..Len(name) : CharAt(name, i) # "."
    THEN (CHOOSE i \in 1..Len(name) :
              CharAt(name, i) # "." /\ \A j \in 1..(i - 1) : CharAt(name, j) = ".") - 1
    ELSE Len(name)
SplitExt(name) ==
    LET dots == {i \in 1..Len(name) : CharAt(name, i) = "."}
        last == IF dots = {} THEN 0 ELSE CHOOSE i \in dots : \A j \in dots : j <= i
    IN  IF last <= LeadingDots(name) THEN "" ELSE SubSeq(name, last, Len(name))

\* int(s) of a string of decimal digits; -1 stands for the ValueError of any other string
Digits == "0123456789"
RECURSIVE ParseDigits(_, _)
ParseDigits(s, acc) ==
    IF s = "" THEN acc
    ELSE LET d == IndexIn(CharAt(s, 1), Digits)
         IN  IF d = 0 THEN -1 ELSE ParseDigits(SubSeq(s, 2, Len(s)), 10 * acc + (d - 1))
ParseInt(s) == IF s = "" THEN -1 ELSE ParseDigits(s, 0)

\* sequence helpers
RECURSIVE SeqSum(_)
SeqSum(seq) == IF seq = <<>> THEN 0 ELSE Head(seq) + SeqSum(Tail(seq))
SeqElems(seq) == {seq[i] : i \in 1..Len(seq)}
NoDuplicates(seq) == \A i, j \in 1..Len(seq) : i # j => seq[i] # seq[j]
Take(seq, n) == SubSeq(seq, 1, IF n < Len(seq) THEN n ELSE Len(seq))
BoundedSeqs(S, n) == UNION {[1..k -> S] : k \in 0..n}


(***************************************************************************)
(* ListFilesTool (list-files.py)                                           *)
(***************************************************************************)
\* bounds of the scope snapshots and requests that are explored
MaxEntries == 3
MaxLimit == 2
S3Window == 4

\* entries os.walk may meet: directory (relative to the scope), file name, size in
\* bytes, whether stat() of the file succeeds in the walk (statOk), and whether
\* the stat() of _get_file_info, made later, succeeds as well (infoOk)
EntryKinds ==
    { [dir |-> "pics",   name |-> "a.jpg",    size |-> 1024,   statOk |-> TRUE, infoOk |-> TRUE],
      [dir |-> "pics",   name |-> "B.JPG",    size |-> 204800, statOk |-> TRUE, infoOk |-> TRUE],
      [dir |-> "docs",   name |-> "c.pdf",    size |-> 5000,   statOk |-> TRUE, infoOk |-> TRUE],
      [dir |-> "pics",   name |-> ".hid.jpg", size |-> 1024,   statOk |-> TRUE, infoOk |-> TRUE],
      [dir |-> ".cache", name |-> "d.jpg",    size |-> 3000,   statOk |-> TRUE, infoOk |-> TRUE],
      [dir |-> "pics",   name |-> "e.jpg",    size |-> 1024,   statOk |-> FALSE, infoOk |-> FALSE],
      [dir |-> "pics",   name |-> "f.jpg",    size |-> 1024,   statOk |-> TRUE, infoOk |-> FALSE] }

\* the filters dicts explored. An absent "extensions" is the empty list (both are
\* falsy), an absent "min_size" is its default 0, an absent "include_hidden" is its
\* default False, and has_max_size tells whether "max_size" is present
NoFilters ==
    [extensions |-> <<>>, min_size |-> 0, has_max_size |-> FALSE, max_size |-> 0,
     include_hidden |-> FALSE]
FilterChoices ==
    { NoFilters,
      [NoFilters EXCEPT !.extensions = <<".JPG">>],
      [NoFilters EXCEPT !.min_size = 2048],
      [NoFilters EXCEPT !.include_hidden = TRUE],
      [NoFilters EXCEPT !.extensions = <<".jpg", ".pdf">>, !.has_max_size = TRUE,
                        !.max_size = 100000] }

\* the scopes explored, and the local paths that exist
LocalScope == "/data/inbox"
MissingScope == "/data/missing"
S3Scope == "s3://bucket/inbox"
ScopeChoices == {LocalScope, MissingScope, S3Scope}
PathExists(path) == path = LocalScope

IsS3(scope) == StartsWith(scope, "s3://")

_parse_cursor(cursor) ==
    IF cursor = None \/ cursor = "" THEN 0
    ELSE IF ParseInt(cursor) < 0 THEN 0 ELSE ParseInt(cursor)

_generate_cursor(position) == ToString(position)

_matches_extension_filter(filename, filters) ==
    IF filters.extensions = <<>> THEN TRUE
    ELSE LET file_ext == Lower(SplitExt(filename))
             allowed_extensions == [i \in 1..Len(filters.extensions) |-> Lower(filters.extensions[i])]
         IN  file_ext \in SeqElems(allowed_extensions)

_matches_size_filter(file_size, filters) ==
    /\ filters.min_size <= file_size
    /\ (~filters.has_max_size \/ file_size <= filters.max_size)

IncludeHidden(filters) == filters.include_hidden

\* _get_file_info: the record of the entry at index idx of the walk
\* _get_file_info: the record of the entry at index idx of the walk; the record of
\* the except branch has no size (execute adds file_info.get("size", 0)) and no
\* extension
_get_file_info(entry, idx) ==
    IF entry.infoOk
    THEN [ idx |-> idx, name |-> entry.name, size |-> entry.size, type |-> "file",
           extension |-> Lower(SplitExt(entry.name)) ]
    ELSE [ idx |-> idx, name |-> entry.name, size |-> 0, type |-> "error",
           extension |-> None ]

\* does the walk reach the entry and do the filters let it through
LocalEntryPasses(entry, filters) ==
    /\ IncludeHidden(filters) \/ ~StartsWith(entry.dir, ".")
    /\ IncludeHidden(filters) \/ ~StartsWith(entry.name, ".")
    /\ _matches_extension_filter(entry.name, filters)
    /\ entry.statOk
    /\ _matches_size_filter(entry.size, filters)

\* the generator _list_local_files: the file infos it yields, in order
RECURSIVE LocalWalk(_, _, _, _, _)
LocalWalk(entries, i, position, start_position, filters) ==
    IF i > Len(entries) THEN <<>>
    ELSE IF ~LocalEntryPasses(entries[i], filters)
         THEN LocalWalk(entries, i + 1, position, start_position, filters)
    ELSE IF position < start_position
         THEN LocalWalk(entries, i + 1, position + 1, start_position, filters)
    ELSE <<_get_file_info(entries[i], i)>>
             \o LocalWalk(entries, i + 1, position + 1, start_position, filters)
_list_local_files(entries, start_position, limit, filters) ==
    LocalWalk(entries, 1, 0, start_position, filters)

\* s3_uri.replace('s3://', '').split('/', 1)
S3Rest(s3_uri) == SubSeq(s3_uri, 6, Len(s3_uri))
S3Slash(s3_uri) == IndexIn("/", S3Rest(s3_uri))
S3Bucket(s3_uri) ==
    IF S3Slash(s3_uri) = 0 THEN S3Rest(s3_uri) ELSE SubSeq(S3Rest(s3_uri), 1, S3Slash(s3_uri) - 1)
S3Prefix(s3_uri) ==
    IF S3Slash(s3_uri) = 0 THEN ""
    ELSE SubSeq(S3Rest(s3_uri), S3Slash(s3_uri) + 1, Len(S3Rest(s3_uri)))

\* the i-th object of the mocked bucket listing
MockS3Object(s3_uri, i) ==
    [ key |-> S3Prefix(s3_uri) \o "/photo_" \o ToString(i) \o ".jpg", size |-> 1024 * (i + 1) ]

S3ObjectPasses(obj, filters) ==
    /\ _matches_extension_filter(obj.key, filters)
    /\ _matches_size_filter(obj.size, filters)

\* the generator _list_s3_files: mock_s3_files holds the objects start_position ..
\* start_position + limit - 1, and those passing the filters are yielded
RECURSIVE S3Walk(_, _, _, _)
S3Walk(s3_uri, i, last, filters) ==
    IF i > last THEN <<>>
    ELSE LET s3_obj == MockS3Object(s3_uri, i)
         IN  IF ~S3ObjectPasses(s3_obj, filters) THEN S3Walk(s3_uri, i + 1, last, filters)
             ELSE << [ idx |-> i, name |-> "photo_" \o ToString(i) \o ".jpg", size |-> s3_obj.size,
                       type |-> "file", extension |-> Lower(SplitExt(s3_obj.key)) ] >>
                      \o S3Walk(s3_uri, i + 1, last, filters)
_list_s3_files(s3_uri, start_position, limit, filters) ==
    S3Walk(s3_uri, start_position, start_position + limit - 1, filters)

\* the collection loop of execute over the generator's output
RECURSIVE CollectFiles(_, _, _, _, _, _)
CollectFiles(gen, i, limit, files, files_collected, current_position) ==
    IF i > Len(gen)
    THEN [files |-> files, has_more |-> FALSE, next_cursor |-> None]
    ELSE IF files_collected >= limit
    THEN [files |-> files, has_more |-> TRUE,
          next_cursor |-> _generate_cursor(current_position + files_collected)]
    ELSE CollectFiles(gen, i + 1, limit, Append(files, gen[i]),
                      files_collected + 1, current_position + 1)

\* the value of lfResp before the first call
NoResponse ==
    [ made |-> FALSE, cursor |-> None, files |-> <<>>, total_found |-> 0, total_size |-> 0,
      next_cursor |-> None, has_more |-> FALSE, errors_encountered |-> 0, error |-> None ]

\* ListFilesTool.execute: the result dict (made and cursor record the call itself)
ListFilesExecute(scope, cursor, limit, filters, entries) ==
    LET start_position == _parse_cursor(cursor)
    IN  IF scope = None
        THEN \* scope.startswith raises; the except branch of execute
             [ made |-> TRUE, cursor |-> cursor, files |-> <<>>, total_found |-> 0, total_size |-> 0, next_cursor |-> None,
               has_more |-> FALSE, errors_encountered |-> 1,
               error |-> "'NoneType' object has no attribute 'startswith'" ]
        ELSE IF ~IsS3(scope) /\ ~PathExists(scope)
        THEN [ made |-> TRUE, cursor |-> cursor, files |-> <<>>, total_found |-> 0, total_size |-> 0, next_cursor |-> None,
               has_more |-> FALSE, errors_encountered |-> 1,
               error |-> "Path does not exist: " \o scope ]
        ELSE LET files_generator ==
                     IF IsS3(scope) THEN _list_s3_files(scope, start_position, limit, filters)
                     ELSE _list_local_files(entries, start_position, limit, filters)
                 got == CollectFiles(files_generator, 1, limit, <<>>, 0, start_position)
             IN  [ made |-> TRUE, cursor |-> cursor, files |-> got.files, total_found |-> Len(got.files),
                   total_size |-> SeqSum([i \in 1..Len(got.files) |-> got.files[i].size]),
                   next_cursor |-> got.next_cursor, has_more |-> got.has_more,
                   errors_encountered |-> 0, error |-> None ]

\* one call of the session: the caller passes the next_cursor of the previous call
ListFilesCall ==
    /\ lfPc = "ready"
    /\ LET result == ListFilesExecute(lfScope, lfCursor, lfLimit, lfFilters, lfEntries)
       IN  /\ lfResp' = result
           /\ lfPages' = lfPages \o result.files
           /\ lfCursor' = result.next_cursor
           /\ lfPc' = IF result.has_more THEN "ready" ELSE "done"
    /\ UNCHANGED <<lfScope, lfEntries, lfFilters, lfLimit>>
    /\ UNCHANGED <<grVars, now, sfVars, cfVars, wrVars, exVars>>

(***************************************************************************)
(* GuardRailTool (guard-rail.py)                                           *)
(*                                                                         *)
(* _check_permissions, the usage behind _check_quotas, _analyze_scope and  *)
(* _check_system_resources are mocks of external providers ("replace with  *)
(* actual ..."): a call's provider answers are inputs of the model, and    *)
(* the answers the mocks hard-wire are among them.  File sizes are in KB,  *)
(* seconds per file and the size multiplier in halves, the CPU load in     *)
(* tenths of a percent and the cost in thousandths of a dollar, so that    *)
(* all arithmetic is exact integer arithmetic.                             *)
(***************************************************************************)
\* Python's {}
EmptyDict == <<>>

\* a tier that is no string but a JSON array: dict.get(tier) raises TypeError
UnhashableTier == "<list>"
TierChoices == {"Standard", "Pro", "Veteran", "Trial", UnhashableTier}
UserChoices == {"user1", "admin123"}

tier_limits(tier) ==
    CASE tier = "Pro"     -> [max_files_per_job |-> 1000,  max_jobs_per_day |-> 20,  max_storage_gb |-> 10]
      [] tier = "Veteran" -> [max_files_per_job |-> 10000, max_jobs_per_day |-> 100, max_storage_gb |-> 100]
      [] OTHER            -> [max_files_per_job |-> 100,   max_jobs_per_day |-> 5,   max_storage_gb |-> 1]

\* the provider answers explored
\* one MB, in KB
MB == 1024
FileCountChoices == {0, 100, 101, 150, 1000, 1001, 5001, 10000, 10001}
AvgSizeChoices == {3 * MB, 20 * MB, 60 * MB, 150 * MB}
FileTypesChoices == { {"jpg", "png", "pdf", "docx", "txt"}, {"jpg", "xyz"} }
CpuChoices == {455, 800, 801}
MemoryChoices == {4096, 2000, 1999}

_check_permissions(user_id, read_access) ==
    [ read_access |-> read_access, write_access |-> TRUE, delete_access |-> TRUE,
      admin_access |-> user_id \in {"admin123", "superuser456"} ]

\* _check_quotas for a hashable tier; quota_exhausted is the provider's answer that
\* nothing remains
_check_quotas(tier, quota_exhausted) ==
    LET limits == tier_limits(tier)
    IN  [ max_files_per_job |-> limits.max_files_per_job,
          max_jobs_per_day |-> limits.max_jobs_per_day,
          max_storage_gb |-> limits.max_storage_gb,
          files_remaining |-> IF quota_exhausted THEN 0 ELSE limits.max_files_per_job,
          jobs_remaining |-> limits.max_jobs_per_day - 2 ]

\* seconds per file, in halves
base_time_per_file(tier) ==
    CASE tier = "Pro" -> 3 [] tier = "Veteran" -> 2 [] OTHER -> 4

\* avg_file_size > threshold, for avg_file_size = total_size / file_count (0 for an
\* empty scope), without rounding the quotient
AvgSizeAbove(total_size, file_count, threshold) ==
    file_count > 0 /\ total_size > threshold * file_count

\* the size multiplier, in halves
size_multiplier(total_size, file_count) ==
    IF AvgSizeAbove(total_size, file_count, 10 * MB) THEN 3
    ELSE IF AvgSizeAbove(total_size, file_count, 50 * MB) THEN 4
    ELSE 2

\* int(file_count * time_per_file * size_multiplier)
_estimate_processing_time(file_count, total_size, tier) ==
    (file_count * base_time_per_file(tier) * size_multiplier(total_size, file_count)) \div 4

\* dollars per file, in thousandths
cost_per_file(tier) ==
    CASE tier = "Pro" -> 2 [] tier = "Veteran" -> 5 [] OTHER -> 1

_estimate_cost(file_count, tier) == file_count * cost_per_file(tier)

common_types == {"jpg", "jpeg", "png", "pdf", "docx", "txt", "mp4", "mov"}

_detect_potential_issues(scope_info) ==
    (IF scope_info.average_file_size > 100 * MB
     THEN <<"Large files detected - processing may be slower">> ELSE <<>>)
    \o (IF scope_info.file_types \ common_types # {}
        THEN <<"Unusual file types detected">> ELSE <<>>)
    \o (IF scope_info.file_count > 5000
        THEN <<"Large scope detected - consider processing in batches">> ELSE <<>>)

\* (ScopeTooLarge with >= for >: a scope of exactly the limit is rejected too)
ScopeTooLargeInclusive(file_count, quotas) == file_count >= quotas.max_files_per_job

\* the scope-size test of execute
ScopeTooLarge(file_count, quotas) == file_count > quotas.max_files_per_job

\* (ResourceStep made blocking: a high CPU load sets ok to false)
ResourceStepRejects(result, system_status) ==
    [result EXCEPT !.ok = ~(system_status.cpu_usage > 800),
                   !.warnings = @ \o (IF system_status.cpu_usage > 800
                                      THEN <<"High system load may cause slower processing">>
                                      ELSE <<>>)]

\* the system-resource step of execute: warnings only
ResourceStep(result, system_status) ==
    [result EXCEPT !.warnings =
        @ \o (IF system_status.cpu_usage > 800
              THEN <<"High system load may cause slower processing">> ELSE <<>>)
          \o (IF system_status.memory_available < 2000
              THEN <<"Low memory available, consider smaller batch sizes">> ELSE <<>>)]

\* the estimation and issue-detection steps of execute
EstimateStep(result, scope_info, tier) ==
    [result EXCEPT
        !.estimated_time = _estimate_processing_time(scope_info.file_count, scope_info.total_size, tier),
        !.estimated_cost = _estimate_cost(scope_info.file_count, tier),
        !.warnings = @ \o _detect_potential_issues(scope_info)]

NoVerdict ==
    [ made |-> FALSE, ok |-> TRUE, warnings |-> <<>>, quotas |-> EmptyDict,
      permissions |-> EmptyDict, estimated_time |-> 0, estimated_cost |-> 0 ]

\* GuardRailExecute with the three checks collecting their warnings and no return
\* before the resource snapshot, the estimates and the issue detection
GuardRailExecute_without_early_return(req) ==
    LET permissions == _check_permissions(req.user_id, req.read_access)
        tier == IF req.tier = UnhashableTier THEN "Standard" ELSE req.tier
        quotas == _check_quotas(tier, req.quota_exhausted)
        failures ==
            (IF ~permissions.read_access THEN <<"No read access to specified scope">> ELSE <<>>)
            \o (IF quotas.files_remaining <= 0 THEN <<"File processing quota exceeded">>
                ELSE <<>>)
            \o (IF ScopeTooLarge(req.scope_info.file_count, quotas)
                THEN <<"Scope contains " \o ToString(req.scope_info.file_count)
                       \o " files, exceeding limit of " \o ToString(quotas.max_files_per_job)>>
                ELSE <<>>)
    IN  EstimateStep(
            ResourceStep([NoVerdict EXCEPT !.made = TRUE, !.permissions = permissions,
                                           !.quotas = quotas, !.ok = (failures = <<>>),
                                           !.warnings = failures],
                         req.system_status),
            req.scope_info, tier)

\* GuardRailTool.execute; req holds the arguments and the providers' answers
GuardRailExecute(req) ==
    LET result0 == [NoVerdict EXCEPT !.made = TRUE]
        permissions == _check_permissions(req.user_id, req.read_access)
        result1 == [result0 EXCEPT !.permissions = permissions]
    IN  IF ~permissions.read_access
        THEN [result1 EXCEPT !.ok = FALSE,
                             !.warnings = @ \o <<"No read access to specified scope">>]
        ELSE IF req.tier = UnhashableTier
        THEN \* tier_limits.get(tier) raises; the except branch of execute
             [result1 EXCEPT !.ok = FALSE,
                             !.warnings = @ \o <<"Safety check failed: unhashable type: 'list'">>]
        ELSE
        LET quotas == _check_quotas(req.tier, req.quota_exhausted)
            result2 == [result1 EXCEPT !.quotas = quotas]
        IN  IF quotas.files_remaining <= 0
            THEN [result2 EXCEPT !.ok = FALSE,
                                 !.warnings = @ \o <<"File processing quota exceeded">>]
            ELSE IF ScopeTooLarge(req.scope_info.file_count, quotas)
            THEN [result2 EXCEPT !.ok = FALSE,
                     !.warnings = @ \o <<"Scope contains " \o ToString(req.scope_info.file_count)
                                          \o " files, exceeding limit of "
                                          \o ToString(quotas.max_files_per_job)>>]
            ELSE EstimateStep(ResourceStep(result2, req.system_status), req.scope_info, req.tier)

NoGuardRequest ==
    [ user_id |-> None, tier |-> None, read_access |-> FALSE, quota_exhausted |-> FALSE,
      scope_info |-> [file_count |-> 0, total_size |-> 0, average_file_size |-> 0, file_types |-> {}],
      system_status |-> [cpu_usage |-> 0, memory_available |-> 0] ]

GuardRequests ==
    [ user_id : UserChoices, tier : TierChoices, read_access : BOOLEAN,
      quota_exhausted : BOOLEAN,
      scope_info : { [file_count |-> n, total_size |-> n * a, average_file_size |-> a, file_types |-> ft] :
                         n \in FileCountChoices, a \in AvgSizeChoices, ft \in FileTypesChoices }
                   \cup { [file_count |-> 150, total_size |-> 500 * MB,
                           average_file_size |-> 3379,
                           file_types |-> {"jpg", "png", "pdf", "docx", "txt"}] },
      system_status : [cpu_usage : CpuChoices, memory_available : MemoryChoices] ]

\* one guard_rail check (the tool keeps no state between calls: a behaviour is one call)
GuardRailCall ==
    /\ ~grRes.made
    /\ \E req \in GuardRequests :
           /\ grReq' = req
           /\ grRes' = GuardRailExecute(req)
    /\ UNCHANGED <<lfVars, now, sfVars, cfVars, wrVars, exVars>>


(***************************************************************************)
(* Dates: datetime.fromisoformat, datetime.now, strftime                   *)
(***************************************************************************)
DigitSet == {CharAt(Digits, i) : i \in 1..Len(Digits)}
IsDigits(s) == s # "" /\ \A i \in 1..Len(s) : CharAt(s, i) \in DigitSet

MonthNames ==
    << "January", "February", "March", "April", "May", "June", "July", "August",
       "September", "October", "November", "December" >>

IsLeap(y) == (y % 4 = 0 /\ y % 100 # 0) \/ y % 400 = 0
DaysInMonth(y, m) ==
    IF m = 2 THEN (IF IsLeap(y) THEN 29 ELSE 28)
    ELSE IF m \in {4, 6, 9, 11} THEN 30 ELSE 31

\* is s a string datetime.fromisoformat accepts: YYYY-MM-DD, optionally followed by
\* a separator character and HH:MM:SS
IsIsoFormat(s) ==
    /\ Len(s) \in {10, 19}
    /\ IsDigits(SubSeq(s, 1, 4)) /\ CharAt(s, 5) = "-"
    /\ IsDigits(SubSeq(s, 6, 7)) /\ CharAt(s, 8) = "-"
    /\ IsDigits(SubSeq(s, 9, 10))
    /\ ParseInt(SubSeq(s, 1, 4)) >= 1
    /\ ParseInt(SubSeq(s, 6, 7)) \in 1..12
    /\ ParseInt(SubSeq(s, 9, 10)) \in
           1..DaysInMonth(ParseInt(SubSeq(s, 1, 4)), ParseInt(SubSeq(s, 6, 7)))
    /\ Len(s) = 19 =>
           /\ IsDigits(SubSeq(s, 12, 13)) /\ CharAt(s, 14) = ":"
           /\ IsDigits(SubSeq(s, 15, 16)) /\ CharAt(s, 17) = ":"
           /\ IsDigits(SubSeq(s, 18, 19))
           /\ ParseInt(SubSeq(s, 12, 13)) < 24
           /\ ParseInt(SubSeq(s, 15, 16)) < 60
           /\ ParseInt(SubSeq(s, 18, 19)) < 60

\* a value that is no string (a JSON number): fromisoformat raises TypeError
NotAString == "<number>"

\* datetime.fromisoformat(s): err is "" or the exception raised
fromisoformat(s) ==
    IF s = NotAString
    THEN [err |-> "TypeError", year |-> 0, month |-> 0, day |-> 0, time |-> ""]
    ELSE IF ~IsIsoFormat(s)
    THEN [err |-> "ValueError", year |-> 0, month |-> 0, day |-> 0, time |-> ""]
    ELSE [err |-> "", year |-> ParseInt(SubSeq(s, 1, 4)), month |-> ParseInt(SubSeq(s, 6, 7)),
          day |-> ParseInt(SubSeq(s, 9, 10)),
          time |-> IF Len(s) = 19 THEN SubSeq(s, 12, 19) ELSE "00:00:00"]

\* datetime.isoformat()
FourDigits(n) ==
    IF n < 10 THEN "000" \o ToString(n) ELSE IF n < 100 THEN "00" \o ToString(n)
    ELSE IF n < 1000 THEN "0" \o ToString(n) ELSE ToString(n)
isoformat(dt) ==
    FourDigits(dt.year) \o "-" \o TwoDigits(dt.month) \o "-" \o TwoDigits(dt.day)
    \o "T" \o dt.time

\* the clock one month later
NextMonth(t) ==
    IF t.month = 12 THEN [year |-> t.year + 1, month |-> 1]
    ELSE [year |-> t.year, month |-> t.month + 1]

(***************************************************************************)
(* SuggestFolderTool (suggest-folder.py)                                   *)
(*                                                                         *)
(* An EXIF dict is [present, datetime, gps, camera, camera_make,           *)
(* camera_model, software]: present is FALSE for exif_data=None, datetime  *)
(* is None when the key is absent, gps tells whether a non-empty "gps" is  *)
(* there, camera is the nested "camera" dict ([present, make, model,       *)
(* software]) and camera_make, camera_model, software are the top-level    *)
(* keys of these names; an absent string key is None.  A classification is *)
(* [is_dict, primary_category, subcategory, tags]; a primary_category of   *)
(* None is a JSON null.  Confidence is in hundredths.                      *)
(***************************************************************************)
\* exif_data is truthy: a non-empty dict
ExifTruthy(exif_data) ==
    /\ exif_data.present
    /\ \/ exif_data.datetime # None \/ exif_data.gps \/ exif_data.camera.present
       \/ exif_data.camera_make # None \/ exif_data.camera_model # None
       \/ exif_data.software # None

\* dict.get(key, "") of a string key
GetOrEmpty(value) == IF value = None THEN "" ELSE value

\* exif_data and exif_data.get("camera"): a non-empty nested dict
HasCamera(exif_data) ==
    /\ ExifTruthy(exif_data) /\ exif_data.camera.present
    /\ \/ exif_data.camera.make # None \/ exif_data.camera.model # None
       \/ exif_data.camera.software # None

\* exif_data and exif_data.get("datetime")
HasDatetime(exif_data) ==
    ExifTruthy(exif_data) /\ exif_data.datetime # None /\ exif_data.datetime # ""

\* exif_data and exif_data.get("gps")
HasGps(exif_data) == ExifTruthy(exif_data) /\ exif_data.gps

AnyTag(tags, word) == \E i \in 1..Len(tags) : Contains(tags[i], word)
AnyKeyword(tags, keywords) == \E k \in SeqElems(keywords) : Contains(JoinWith(" ", tags), k)
FirstKeyword(tags, keywords) ==
    keywords[CHOOSE i \in 1..Len(keywords) :
                 /\ Contains(JoinWith(" ", tags), keywords[i])
                 /\ \A j \in 1..(i - 1) : ~Contains(JoinWith(" ", tags), keywords[j])]

\* a returned path, or the exception raised instead
Ok(path) == [err |-> "", val |-> path]
Raise(message) == [err |-> message, val |-> ""]

EventKeywords == <<"wedding", "birthday", "vacation", "party">>

\* _suggest_photo_path with the GPS test moved before the date test
_suggest_photo_path_gps_first(tags, exif_data, subcategory, clock) ==
    IF subcategory = "screenshot" \/ AnyTag(tags, "screenshot") THEN Ok("Photos/Screenshots")
    ELSE IF subcategory = "professional_photo" THEN Ok("Photos/Professional")
    ELSE IF HasGps(exif_data) THEN Ok("Photos/Travel")
    ELSE IF HasDatetime(exif_data) /\ fromisoformat(exif_data.datetime).err = "TypeError"
    THEN Raise("fromisoformat: argument must be str")
    ELSE IF HasDatetime(exif_data) /\ fromisoformat(exif_data.datetime).err = ""
    THEN LET date_obj == fromisoformat(exif_data.datetime)
         IN  Ok("Photos/" \o ToString(date_obj.year) \o "/" \o TwoDigits(date_obj.month)
                 \o "-" \o MonthNames[date_obj.month])
    ELSE Ok("Photos/Camera Roll/" \o ToString(clock.year))

_suggest_photo_path(tags, exif_data, subcategory, clock) ==
    IF subcategory = "screenshot" \/ AnyTag(tags, "screenshot") THEN Ok("Photos/Screenshots")
    ELSE IF subcategory = "professional_photo" THEN Ok("Photos/Professional")
    ELSE IF HasDatetime(exif_data) /\ fromisoformat(exif_data.datetime).err = "TypeError"
    THEN Raise("fromisoformat: argument must be str")
    ELSE IF HasDatetime(exif_data) /\ fromisoformat(exif_data.datetime).err = ""
    THEN LET date_obj == fromisoformat(exif_data.datetime)
         IN  Ok("Photos/" \o ToString(date_obj.year) \o "/" \o TwoDigits(date_obj.month)
                 \o "-" \o MonthNames[date_obj.month])
    ELSE IF HasGps(exif_data) THEN Ok("Photos/Travel")
    ELSE IF AnyTag(tags, "person") \/ AnyTag(tags, "family") THEN Ok("Photos/People")
    ELSE IF AnyKeyword(tags, EventKeywords)
    THEN Ok("Photos/Events/" \o Title(FirstKeyword(tags, EventKeywords)))
    ELSE Ok("Photos/Camera Roll/" \o ToString(clock.year))

type_folders(subcategory) ==
    CASE subcategory = "invoice"  -> "Documents/Financial/Invoices"
      [] subcategory = "receipt"  -> "Documents/Financial/Receipts"
      [] subcategory = "contract" -> "Documents/Legal/Contracts"
      [] subcategory = "resume"   -> "Documents/Personal/Resume"
      [] subcategory = "letter"   -> "Documents/Correspondence"
      [] subcategory = "report"   -> "Documents/Reports"
      [] subcategory = "manual"   -> "Documents/Manuals"
      [] OTHER -> None

_suggest_document_path(tags, subcategory, clock) ==
    IF subcategory # None /\ subcategory # "" /\ type_folders(subcategory) # None
    THEN Ok(type_folders(subcategory))
    ELSE IF AnyKeyword(tags, <<"work", "business", "client", "project", "meeting">>)
    THEN Ok("Documents/Work")
    ELSE IF AnyKeyword(tags, <<"personal", "family", "home", "private">>)
    THEN Ok("Documents/Personal")
    ELSE Ok("Documents/" \o ToString(clock.year))

_suggest_video_path(tags, exif_data, subcategory, clock) ==
    IF Contains(JoinWith(" ", tags), "recording") \/ subcategory = "recording"
    THEN Ok("Videos/Recordings")
    ELSE IF AnyKeyword(tags, <<"family", "personal", "home">>) THEN Ok("Videos/Personal")
    ELSE IF AnyKeyword(tags, <<"work", "business", "presentation">>) THEN Ok("Videos/Work")
    ELSE IF HasDatetime(exif_data) /\ fromisoformat(exif_data.datetime).err = "TypeError"
    THEN Raise("fromisoformat: argument must be str")
    ELSE IF HasDatetime(exif_data) /\ fromisoformat(exif_data.datetime).err = ""
    THEN Ok("Videos/" \o ToString(fromisoformat(exif_data.datetime).year))
    ELSE Ok("Videos/" \o ToString(clock.year))

_suggest_audio_path(tags, subcategory) ==
    IF AnyKeyword(tags, <<"music", "song", "album">>) THEN Ok("Music/Library")
    ELSE IF Contains(JoinWith(" ", tags), "podcast") THEN Ok("Audio/Podcasts")
    ELSE IF AnyKeyword(tags, <<"recording", "voice", "memo">>) THEN Ok("Audio/Recordings")
    ELSE Ok("Audio/Files")

\* tags that do not start with year_, month_ or day_
meaningful_tags(tags) ==
    SelectSeq(tags, LAMBDA tag : ~(StartsWith(tag, "year_") \/ StartsWith(tag, "month_")
                                     \/ StartsWith(tag, "day_")))

_suggest_generic_path(category, subcategory, tags) ==
    IF category = None THEN Raise("'NoneType' object has no attribute 'capitalize'")
    ELSE IF subcategory # None /\ subcategory # ""
    THEN Ok(Capitalize(category) \o "/" \o Title(Replace(subcategory, "_", " ")))
    ELSE IF meaningful_tags(tags) # <<>>
    THEN Ok(Capitalize(category) \o "/" \o Title(Replace(meaningful_tags(tags)[1], "_", " ")))
    ELSE Ok(Capitalize(category))

_generate_primary_path(category, subcategory, tags, exif_data, clock) ==
    CASE category = "photos"    -> _suggest_photo_path(tags, exif_data, subcategory, clock)
      [] category = "documents" -> _suggest_document_path(tags, subcategory, clock)
      [] category = "videos"    -> _suggest_video_path(tags, exif_data, subcategory, clock)
      [] category = "audio"     -> _suggest_audio_path(tags, subcategory)
      [] OTHER                  -> _suggest_generic_path(category, subcategory, tags)


\* list(dict.fromkeys(seq)): the first occurrence of every element, in order
RECURSIVE Dedup(_)
Dedup(seq) ==
    IF seq = <<>> THEN <<>>
    ELSE LET rest == Dedup(SubSeq(seq, 1, Len(seq) - 1))
         IN  IF seq[Len(seq)] \in SeqElems(rest) THEN rest ELSE Append(rest, seq[Len(seq)])

\* (unique_alternatives without dict.fromkeys: the duplicates are kept)
unique_alternatives_keeping_duplicates(alternatives) == Take(alternatives, 5)

\* list(dict.fromkeys(alternatives))[:5]
unique_alternatives(alternatives) == Take(Dedup(alternatives), 5)

\* _generate_alternatives, for a category that is a string
_generate_alternatives(category, subcategory, tags, exif_data, clock) ==
    LET by_category ==
            IF category = "photos"
            THEN <<"Photos/All Photos", "Photos/Unsorted", "Photos/" \o ToString(clock.year)>>
                 \o (IF HasCamera(exif_data)
                        /\ Replace(GetOrEmpty(exif_data.camera.make), " ", "") # ""
                     THEN <<"Photos/By Camera/"
                              \o Replace(GetOrEmpty(exif_data.camera.make), " ", "")>>
                     ELSE <<>>)
            ELSE IF category = "documents"
            THEN <<"Documents/All Documents", "Documents/Unsorted", "Documents/Inbox">>
            ELSE <<>>
        top_tags == Take(tags, 3)
        by_tag == [i \in 1..Len(top_tags) |->
                       Capitalize(category) \o "/By Tag/" \o Title(Replace(top_tags[i], "_", " "))]
        current_month == TwoDigits(clock.month) \o "-" \o MonthNames[clock.month]
        by_date == << Capitalize(category) \o "/" \o ToString(clock.year),
                      Capitalize(category) \o "/" \o ToString(clock.year) \o "/" \o current_month >>
    IN  unique_alternatives(by_category \o by_tag \o by_date)

\* chosen_path.split("/")
RECURSIVE SplitSlash(_, _)
SplitSlash(s, part) ==
    IF s = "" THEN <<part>>
    ELSE IF CharAt(s, 1) = "/" THEN <<part>> \o SplitSlash(SubSeq(s, 2, Len(s)), "")
    ELSE SplitSlash(SubSeq(s, 2, Len(s)), part \o CharAt(s, 1))

_generate_reasoning(category, subcategory, tags, exif_data, chosen_path) ==
    <<"File classified as '" \o category \o "' - using " \o category \o " folder structure">>
    \o (IF subcategory # None /\ subcategory # ""
        THEN <<"Subcategory '" \o subcategory \o "' suggests specialized organization">>
        ELSE <<>>)
    \o (IF HasDatetime(exif_data)
           /\ \E part \in SeqElems(SplitSlash(chosen_path, "")) : IsDigits(part)
        THEN <<"Date from metadata used for chronological organization">> ELSE <<>>)
    \o (IF /\ meaningful_tags(tags) # <<>>
           /\ \E tag \in SeqElems(meaningful_tags(tags)) :
                  Contains(Lower(chosen_path), Lower(Replace(tag, "_", " ")))
        THEN <<"Content tags influenced folder choice: "
                  \o JoinWith(", ", Take(meaningful_tags(tags), 3))>>
        ELSE <<>>)
    \o (IF HasGps(exif_data) /\ Contains(Lower(chosen_path), "travel")
        THEN <<"GPS metadata suggests travel/location-based organization">> ELSE <<>>)

\* the value of sfOut before a call
NoSuggestion ==
    [ made |-> FALSE, raised |-> "", failed |-> FALSE, primary_path |-> "",
      alternatives |-> <<>>, reasoning |-> <<>>, confidence |-> 0 ]

\* SuggestFolderTool.execute.  raised names the exception that leaves execute ("" when
\* it returns); failed tells that the except branch was taken.
SuggestFolderExecute(classification, exif_data, clock) ==
    LET result == [NoSuggestion EXCEPT !.made = TRUE]
    IN  IF ~classification.is_dict
        THEN \* classification.get raises before file_category is bound, and the except
             \* branch reads file_category
             [result EXCEPT !.failed = TRUE, !.raised = "UnboundLocalError"]
        ELSE
        LET file_category == classification.primary_category
            subcategory == classification.subcategory
            tags == classification.tags
            primary == _generate_primary_path(file_category, subcategory, tags, exif_data, clock)
        IN  IF primary.err # ""
            THEN IF file_category = None
                 THEN \* file_category.capitalize() raises inside the except branch
                      [result EXCEPT !.failed = TRUE, !.raised = "AttributeError"]
                 ELSE [result EXCEPT !.failed = TRUE,
                          !.primary_path = "Unsorted/" \o Capitalize(file_category),
                          !.reasoning = <<"Error in path generation: " \o primary.err>>]
            ELSE [result EXCEPT
                     !.primary_path = primary.val,
                     !.confidence = 80,
                     !.alternatives = _generate_alternatives(file_category, subcategory, tags,
                                                             exif_data, clock),
                     !.reasoning = _generate_reasoning(file_category, subcategory, tags,
                                                       exif_data, primary.val)]

\* the inputs explored
MaxTags == 2
MaxTicks == 1
TagPool == {"family", "screenshot", "year_2023", "a_b", "a b"}
SuggestCategories == {"photos", "documents", "videos", "audio", "archives", "unknown", None}
SuggestSubcategories == {None, "screenshot", "professional_photo", "invoice", "large_archive"}
NoCamera == [present |-> FALSE, make |-> None, model |-> None, software |-> None]
NoExif ==
    [ present |-> FALSE, datetime |-> None, gps |-> FALSE, camera |-> NoCamera,
      camera_make |-> None, camera_model |-> None, software |-> None ]
EmptyExif == [NoExif EXCEPT !.present = TRUE]
ExifChoices ==
    { NoExif, EmptyExif,
      [EmptyExif EXCEPT !.datetime = "2023-08-15T14:30:25"],
      [EmptyExif EXCEPT !.datetime = "2023:08:15 14:30:25"],
      [EmptyExif EXCEPT !.datetime = NotAString],
      [EmptyExif EXCEPT !.gps = TRUE],
      [EmptyExif EXCEPT !.datetime = "2023-08-15T14:30:25", !.gps = TRUE,
                        !.camera = [NoCamera EXCEPT !.present = TRUE, !.make = "Apple Inc"]] }
NotADict == [is_dict |-> FALSE, primary_category |-> None, subcategory |-> None, tags |-> <<>>]
Classifications ==
    [ is_dict : {TRUE}, primary_category : SuggestCategories,
      subcategory : SuggestSubcategories, tags : BoundedSeqs(TagPool, MaxTags) ]
    \cup {NotADict}
NoSuggestRequest == [classification |-> NotADict, exif_data |-> NoExif]

StartClock == [year |-> 2026, month |-> 12]
Ticks(clock) == (clock.year - StartClock.year) * 12 + clock.month - StartClock.month

\* a call of SuggestFolderTool.execute
SuggestFolderCall ==
    /\ sfPc = "idle"
    /\ \E classification \in Classifications, exif_data \in ExifChoices :
           /\ sfReq' = [classification |-> classification, exif_data |-> exif_data]
           /\ sfOut' = SuggestFolderExecute(classification, exif_data, now)
    /\ sfPc' = "called"
    /\ UNCHANGED <<sfOut2, now, lfVars, grVars, cfVars, wrVars, exVars>>

\* time passes between two calls
Tick ==
    /\ sfPc = "called"
    /\ Ticks(now) < MaxTicks
    /\ now' = NextMonth(now)
    /\ UNCHANGED <<sfVars, lfVars, grVars, cfVars, wrVars, exVars>>

\* a second call of SuggestFolderTool.execute with the inputs of the first
SuggestFolderRepeat ==
    /\ sfPc = "called"
    /\ sfOut2' = SuggestFolderExecute(sfReq.classification, sfReq.exif_data, now)
    /\ sfPc' = "repeated"
    /\ UNCHANGED <<sfReq, sfOut, now, lfVars, grVars, cfVars, wrVars, exVars>>


(***************************************************************************)
(* ClassifyFileTool (src/agents/tools/classify-file.py).                   *)
(* A request is [file_key, metadata, text_content, exif_data]; file_key is *)
(* None for a JSON null, metadata is [is_dict, mime_type, has_size, size]  *)
(* with is_dict FALSE for a JSON null and mime_type None when absent.      *)
(* Confidence and confidence_boost are in hundredths; a confidence_boost   *)
(* of -1 says that the result has no such key.                             *)
(***************************************************************************)
categories ==
    << [ name |-> "photos",
         extensions |-> {".jpg", ".jpeg", ".png", ".gif", ".bmp", ".tiff", ".heic", ".raw"},
         mimetypes |-> {"image/jpeg", "image/png", "image/gif", "image/bmp"} ],
       [ name |-> "documents",
         extensions |-> {".pdf", ".doc", ".docx", ".txt", ".rtf", ".odt"},
         mimetypes |-> {"application/pdf", "application/msword", "text/plain"} ],
       [ name |-> "spreadsheets",
         extensions |-> {".xls", ".xlsx", ".csv", ".ods"},
         mimetypes |-> {"application/vnd.ms-excel", "text/csv"} ],
       [ name |-> "presentations",
         extensions |-> {".ppt", ".pptx", ".odp"},
         mimetypes |-> {"application/vnd.ms-powerpoint"} ],
       [ name |-> "videos",
         extensions |-> {".mp4", ".avi", ".mov", ".wmv", ".flv", ".mkv"},
         mimetypes |-> {"video/mp4", "video/avi", "video/quicktime"} ],
       [ name |-> "audio",
         extensions |-> {".mp3", ".wav", ".flac", ".aac", ".ogg"},
         mimetypes |-> {"audio/mpeg", "audio/wav", "audio/flac"} ],
       [ name |-> "archives",
         extensions |-> {".zip", ".rar", ".7z", ".tar", ".gz"},
         mimetypes |-> {"application/zip", "application/x-rar"} ] >>

\* os.path.basename
Basename(path) ==
    LET slashes == {i \in 1..Len(path) : CharAt(path, i) = "/"}
        last == IF slashes = {} THEN 0 ELSE CHOOSE i \in slashes : \A j \in slashes : j <= i
    IN  SubSeq(path, last + 1, Len(path))

\* the categories are tried in order, each by extension and then by MIME type
_classify_by_extension(extension, mime_type) ==
    LET hit(i) == \/ extension \in categories[i].extensions
                  \/ (mime_type # None /\ mime_type # ""
                      /\ mime_type \in categories[i].mimetypes)
        hits == {i \in 1..Len(categories) : hit(i)}
    IN  IF hits = {} THEN "unknown"
        ELSE categories[CHOOSE i \in hits : \A j \in hits : i <= j].name

\* re.search of an alternation of literal words
SearchWords(s, words) == \E w \in words : Contains(s, w)

\* re.search(r"(img|photo|pic|image)_?\d+", s)
SearchNumbered(s, words) ==
    \E w \in words : \E i \in 1..(Len(s) - Len(w)) :
        /\ SubSeq(s, i, i + Len(w) - 1) = w
        /\ \/ CharAt(s, i + Len(w)) \in DigitSet
           \/ /\ i + Len(w) + 1 <= Len(s)
              /\ CharAt(s, i + Len(w)) = "_"
              /\ CharAt(s, i + Len(w) + 1) \in DigitSet

\* the first pattern, in the order of the dict, that the lower-cased name matches
_analyze_filename_patterns(filename) ==
    LET n == Lower(filename)
    IN  IF SearchWords(n, {"screenshot", "screen", "capture"}) THEN "screenshot"
        ELSE IF SearchWords(n, {"invoice", "bill", "receipt"}) THEN "invoice"
        ELSE IF SearchWords(n, {"resume", "cv", "curriculum"}) THEN "resume"
        ELSE IF SearchWords(n, {"contract", "agreement", "terms"}) THEN "contract"
        ELSE IF SearchNumbered(n, {"img", "photo", "pic", "image"}) THEN "photo"
        ELSE IF SearchWords(n, {"doc", "document", "letter", "report"}) THEN "document"
        ELSE IF SearchWords(n, {"backup", "bak", "archive"}) THEN "backup"
        ELSE IF SearchWords(n, {"download", "temp", "tmp"}) THEN "download"
        ELSE None

_classify_by_content(text_content) ==
    LET c == Lower(text_content)
    IN  IF SearchWords(c, {"invoice", "bill", "payment", "due", "amount"}) THEN "invoice"
        ELSE IF SearchWords(c, {"agreement", "contract", "terms", "conditions"}) THEN "contract"
        ELSE IF SearchWords(c, {"resume", "experience", "education", "skills"}) THEN "resume"
        ELSE IF SearchWords(c, {"dear", "sincerely", "regards", "yours"}) THEN "letter"
        ELSE IF SearchWords(c, {"report", "analysis", "findings", "conclusion"}) THEN "report"
        ELSE None

\* reads the top-level keys camera_make, camera_model and software
_classify_by_exif(exif_data) ==
    LET camera_make == Lower(GetOrEmpty(exif_data.camera_make))
        camera_model == Lower(GetOrEmpty(exif_data.camera_model))
        software == Lower(GetOrEmpty(exif_data.software))
    IN  IF /\ SearchWords(camera_make, {"canon", "nikon", "sony", "fujifilm"})
           /\ (Contains(camera_model, "mark") \/ Contains(camera_model, "pro"))
        THEN "professional_photo"
        ELSE IF SearchWords(camera_make, {"apple", "samsung", "google", "huawei"})
        THEN "mobile_photo"
        ELSE IF Contains(software, "screenshot") \/ Contains(software, "screen capture")
        THEN "screenshot"
        ELSE None

_classify_by_size(file_size, file_ext) ==
    IF file_size = 0 THEN "empty_file"
    ELSE IF file_size > 100 * 1024 * 1024 /\ file_ext \in {".mp4", ".avi", ".mov"}
    THEN "large_video"
    ELSE IF file_size > 100 * 1024 * 1024 /\ file_ext \in {".zip", ".rar", ".7z"}
    THEN "large_archive"
    ELSE IF file_ext \in {".jpg", ".png", ".gif"} /\ file_size < 50 * 1024
    THEN "thumbnail"
    ELSE None


NoEnhancement == [subcategory |-> None, confidence_boost |-> 0, processing_notes |-> <<>>]

\* Suggests with a subcategory that is set once and kept
Suggests_keeping_first(enhancement, category, boost, note) ==
    IF category = None THEN enhancement
    ELSE [ subcategory |-> IF enhancement.subcategory = None THEN category
                           ELSE enhancement.subcategory,
           confidence_boost |-> enhancement.confidence_boost + boost,
           processing_notes |->
               IF note = "" THEN enhancement.processing_notes
               ELSE Append(enhancement.processing_notes, note \o category) ]

\* one signal: a category found overwrites the subcategory, adds to the boost
\* and, but for the size heuristic, leaves a note
Suggests(enhancement, category, boost, note) ==
    IF category = None THEN enhancement
    ELSE [ subcategory |-> category,
           confidence_boost |-> enhancement.confidence_boost + boost,
           processing_notes |->
               IF note = "" THEN enhancement.processing_notes
               ELSE Append(enhancement.processing_notes, note \o category) ]

\* the signals in the order of the code: filename, content, EXIF, size
_enhanced_classification(file_name, file_ext, metadata, text_content, exif_data) ==
    Suggests(
        Suggests(
            Suggests(
                Suggests(NoEnhancement, _analyze_filename_patterns(file_name), 10,
                         "Filename suggests: "),
                IF text_content # "" /\ Len(text_content) > 100
                THEN _classify_by_content(text_content) ELSE None,
                20, "Content suggests: "),
            IF ExifTruthy(exif_data) /\ file_ext \in {".jpg", ".jpeg", ".tiff", ".raw"}
            THEN _classify_by_exif(exif_data) ELSE None,
            10, "EXIF suggests: "),
        _classify_by_size(IF metadata.has_size THEN metadata.size ELSE 0, file_ext),
        5, "")

\* datetime.strftime("%A"), Sunday first
DayNames ==
    <<"Sunday", "Monday", "Tuesday", "Wednesday", "Thursday", "Friday", "Saturday">>

Weekday(year, month, day) ==
    LET a == (14 - month) \div 12
        y == year - a
        m == month + 12 * a - 2
    IN  DayNames[((day + y + (y \div 4) - (y \div 100) + (y \div 400) + ((31 * m) \div 12)) % 7) + 1]

_extract_content_tags(text_content) ==
    LET c == Lower(text_content)
        business == <<"meeting", "project", "client", "proposal", "budget", "deadline">>
        personal == <<"family", "vacation", "birthday", "anniversary", "wedding">>
    IN  SelectSeq([i \in 1..Len(business) |->
                      IF Contains(c, business[i]) THEN "business_" \o business[i] ELSE ""],
                  LAMBDA t : t # "")
        \o SelectSeq([i \in 1..Len(personal) |->
                         IF Contains(c, personal[i]) THEN "personal_" \o personal[i] ELSE ""],
                     LAMBDA t : t # "")

\* re.search(r"\d{4}-\d{2}-\d{2}", s)
SearchIsoDate(s) ==
    \E i \in 1..(Len(s) - 9) :
        /\ IsDigits(SubSeq(s, i, i + 3)) /\ CharAt(s, i + 4) = "-"
        /\ IsDigits(SubSeq(s, i + 5, i + 6)) /\ CharAt(s, i + 7) = "-"
        /\ IsDigits(SubSeq(s, i + 8, i + 9))

_extract_filename_tags(filename) ==
    (IF SearchIsoDate(filename) THEN <<"date_formatted">> ELSE <<>>)
    \o (IF Contains(Lower(filename), "final") THEN <<"final_version">> ELSE <<>>)
    \o (IF Contains(Lower(filename), "draft") THEN <<"draft">> ELSE <<>>)
    \o (IF Contains(Lower(filename), "backup") THEN <<"backup">> ELSE <<>>)

\* The iteration order of a set of strings depends on the hash seed of the
\* process: seed 0 keeps the order of insertion, an odd seed reverses, and
\* every second seed rotates by one more place.
Reverse(seq) == [i \in 1..Len(seq) |-> seq[Len(seq) + 1 - i]]
Rotate(seq, k) ==
    IF seq = <<>> THEN <<>>
    ELSE [i \in 1..Len(seq) |-> seq[((i - 1 + k) % Len(seq)) + 1]]
ListOfSet(seq, seed) ==
    LET r == Rotate(Dedup(seq), seed \div 2)
    IN  IF seed % 2 = 1 THEN Reverse(r) ELSE r

\* the tags, or the exception fromisoformat raised instead
_generate_tags(filename, text_content, exif_data, category, seed) ==
    LET date_obj == IF HasDatetime(exif_data) THEN fromisoformat(exif_data.datetime)
                    ELSE [err |-> "", year |-> 0, month |-> 0, day |-> 0, time |-> ""]
        date_tags == IF HasDatetime(exif_data)
                     THEN << "year_" \o ToString(date_obj.year),
                             "month_" \o Lower(MonthNames[date_obj.month]),
                             "day_" \o Lower(Weekday(date_obj.year, date_obj.month, date_obj.day)) >>
                     ELSE <<>>
        tags == <<category>> \o date_tags
                \o (IF HasGps(exif_data) THEN <<"geotagged">> ELSE <<>>)
                \o (IF text_content # "" THEN _extract_content_tags(text_content) ELSE <<>>)
                \o _extract_filename_tags(filename)
    IN  IF date_obj.err # ""
        THEN [err |-> date_obj.err, val |-> <<>>]
        ELSE [err |-> "", val |-> ListOfSet(tags, seed)]


\* the category folder, year and month of a dated photo, the subcategory
_suggest_folder_path(classification, exif_data) ==
    LET category == classification.primary_category
        date_obj == fromisoformat(exif_data.datetime)
    IN  JoinWith("/",
            <<Capitalize(category)>>
            \o (IF category = "photos" /\ HasDatetime(exif_data)
                THEN << ToString(date_obj.year),
                        TwoDigits(date_obj.month) \o "-" \o MonthNames[date_obj.month] >>
                ELSE <<>>)
            \o (IF classification.subcategory # None /\ classification.subcategory # ""
                THEN <<Title(Replace(classification.subcategory, "_", " "))>>
                ELSE <<>>))

\* None, or the dict built from a non-empty "gps"
_extract_location(exif_data) == IF exif_data.gps THEN "<gps>" ELSE None

Whitespace == {" ", "\t", "\n"}

\* len(text.split())
WordCount(text) ==
    Cardinality({i \in 1..Len(text) :
                    /\ CharAt(text, i) \notin Whitespace
                    /\ (i = 1 \/ CharAt(text, i - 1) \in Whitespace)})

\* a content analysis that tags the content type twice
_analyze_content_repeating_type(text_content) ==
    LET word_count == WordCount(text_content)
        content_type == IF word_count > 1000 THEN "long_document"
                        ELSE IF word_count < 50 THEN "short_note" ELSE "text"
    IN  [ description |-> content_type \o " with " \o ToString(word_count) \o " words",
          tags |-> <<content_type, content_type>> ]

_analyze_content(text_content) ==
    LET word_count == WordCount(text_content)
        content_type == IF word_count > 1000 THEN "long_document"
                        ELSE IF word_count < 50 THEN "short_note" ELSE "text"
    IN  [ description |-> content_type \o " with " \o ToString(word_count) \o " words",
          tags |-> <<content_type, "words_" \o ToString((word_count \div 100) * 100) \o "+">> ]

NoClassification ==
    [ made |-> FALSE, file_key |-> None, primary_category |-> "unknown", subcategory |-> None,
      tags |-> <<>>, confidence |-> 0, confidence_boost |-> -1, suggested_folder |-> "",
      content_description |-> "", people_detected |-> <<>>, location |-> None,
      date_taken |-> None, processing_notes |-> <<>> ]

\* the except branch: the result as far as it got, with one more note
ClassificationError(result, message) ==
    [result EXCEPT !.processing_notes = Append(@, "Classification error: " \o message)]

IsoformatMessage(err, value) ==
    IF err = "TypeError" THEN "fromisoformat: argument must be str"
    ELSE "Invalid isoformat string: '" \o value \o "'"

\* BasicAndEnhanced with the boost added to the confidence
BasicAndEnhanced_adding_boost(result, basic_category, enhanced_result) ==
    [result EXCEPT !.primary_category = basic_category,
                   !.confidence = (IF basic_category # "unknown" THEN 70 ELSE 10)
                                  + enhanced_result.confidence_boost,
                   !.subcategory = enhanced_result.subcategory,
                   !.confidence_boost = enhanced_result.confidence_boost,
                   !.processing_notes = enhanced_result.processing_notes]

\* BasicAndEnhanced with the boost taken from the confidence
BasicAndEnhanced_subtracting_boost(result, basic_category, enhanced_result) ==
    [result EXCEPT !.primary_category = basic_category,
                   !.confidence = (IF basic_category # "unknown" THEN 70 ELSE 10)
                                  - enhanced_result.confidence_boost,
                   !.subcategory = enhanced_result.subcategory,
                   !.confidence_boost = enhanced_result.confidence_boost,
                   !.processing_notes = enhanced_result.processing_notes]

\* lines 100-108: the category and its confidence, then result.update(enhanced_result),
\* which replaces subcategory and processing_notes and adds the key confidence_boost
BasicAndEnhanced(result, basic_category, enhanced_result) ==
    [result EXCEPT !.primary_category = basic_category,
                   !.confidence = IF basic_category # "unknown" THEN 70 ELSE 10,
                   !.subcategory = enhanced_result.subcategory,
                   !.confidence_boost = enhanced_result.confidence_boost,
                   !.processing_notes = enhanced_result.processing_notes]

\* lines 111-127: tags, folder, EXIF fields and content analysis, or the except
\* branch when the tags could not be made
TagsAndFolder(result, tags, content_info, text_content, exif_data) ==
    IF tags.err # ""
    THEN ClassificationError(result, IsoformatMessage(tags.err, exif_data.datetime))
    ELSE [result EXCEPT
             !.tags = IF text_content # "" THEN tags.val \o content_info.tags ELSE tags.val,
             !.suggested_folder = _suggest_folder_path(result, exif_data),
             !.date_taken = IF ExifTruthy(exif_data) THEN exif_data.datetime ELSE @,
             !.location = IF ExifTruthy(exif_data) THEN _extract_location(exif_data) ELSE @,
             !.content_description = IF text_content # "" THEN content_info.description
                                     ELSE @]

ClassifyNamed(result, file_name, file_ext, metadata, text_content, exif_data, seed) ==
    TagsAndFolder(
        BasicAndEnhanced(result,
            _classify_by_extension(file_ext, metadata.mime_type),
            _enhanced_classification(file_name, file_ext, metadata, text_content, exif_data)),
        _generate_tags(file_name, text_content, exif_data,
                       _classify_by_extension(file_ext, metadata.mime_type), seed),
        _analyze_content(text_content), text_content, exif_data)

ClassifyFileExecute(file_key, metadata, text_content, exif_data, seed) ==
    IF file_key = None
    THEN ClassificationError([NoClassification EXCEPT !.made = TRUE, !.file_key = file_key],
             "expected str, bytes or os.PathLike object, not NoneType")
    ELSE IF ~metadata.is_dict
    THEN ClassificationError([NoClassification EXCEPT !.made = TRUE, !.file_key = file_key],
             "'NoneType' object has no attribute 'get'")
    ELSE ClassifyNamed([NoClassification EXCEPT !.made = TRUE, !.file_key = file_key],
                       Basename(file_key), Lower(SplitExt(Basename(file_key))),
                       metadata, text_content, exif_data, seed)

(* The calls the model makes. *)
MaxSeed == 1

FileKeys ==
    { "inbox/IMG_20230815.jpg", "invoice_final.pdf", "notes.txt", "clip.mp4",
      "scan.pdf.JPG", "data.xyz", None }

NoMetadata == [is_dict |-> TRUE, mime_type |-> None, has_size |-> FALSE, size |-> 0]
NullMetadata == [NoMetadata EXCEPT !.is_dict = FALSE]
MetadataChoices ==
    { NullMetadata, NoMetadata,
      [NoMetadata EXCEPT !.has_size = TRUE, !.size = 3145728],
      [NoMetadata EXCEPT !.mime_type = "image/jpeg", !.has_size = TRUE, !.size = 20480],
      [NoMetadata EXCEPT !.mime_type = "video/mp4", !.has_size = TRUE, !.size = 209715200] }

LongText ==
    "Lorem ipsum dolor sit amet consectetur adipiscing elit sed do eiusmod tempor "
    \o "incididunt ut labore et dolore magna aliqua"
TextChoices ==
    { "", "family meeting", LongText \o " Amount due for the project",
      LongText \o " family" }

ClassifyExifChoices ==
    { NoExif, EmptyExif,
      [EmptyExif EXCEPT !.datetime = "2023-08-15T14:30:25", !.gps = TRUE],
      [EmptyExif EXCEPT !.datetime = "2023:08:15 14:30:25"],
      [EmptyExif EXCEPT !.datetime = NotAString],
      [EmptyExif EXCEPT !.camera_make = "Apple", !.camera_model = "iPhone 14"],
      [EmptyExif EXCEPT !.datetime = "2023-08-15T14:30:25",
                        !.camera = [NoCamera EXCEPT !.present = TRUE, !.make = "Apple",
                                                    !.model = "iPhone 14"]] }

NoClassifyRequest ==
    [ file_key |-> None, metadata |-> NullMetadata, text_content |-> "", exif_data |-> NoExif ]

\* one call of execute in a process whose hash seed is hashSeed
ClassifyFileCall ==
    /\ cfPc = "idle"
    /\ \E file_key \in FileKeys, metadata \in MetadataChoices,
          text_content \in TextChoices, exif_data \in ClassifyExifChoices :
           /\ cfReq' = [ file_key |-> file_key, metadata |-> metadata,
                         text_content |-> text_content, exif_data |-> exif_data ]
           /\ cfOut' = ClassifyFileExecute(file_key, metadata, text_content, exif_data, hashSeed)
    /\ cfPc' = "called"
    /\ UNCHANGED <<cfOut2, hashSeed, lfVars, grVars, now, sfVars, wrVars, exVars>>

\* the process is started again: another hash seed
Restart ==
    /\ cfPc = "called"
    /\ \E seed \in 0..MaxSeed : seed # hashSeed /\ hashSeed' = seed
    /\ cfPc' = "restarted"
    /\ UNCHANGED <<cfReq, cfOut, cfOut2, lfVars, grVars, now, sfVars, wrVars,
                   exVars>>

\* the same call once more
ClassifyFileRepeat ==
    /\ cfPc \in {"called", "restarted"}
    /\ cfOut2' = ClassifyFileExecute(cfReq.file_key, cfReq.metadata, cfReq.text_content,
                                     cfReq.exif_data, hashSeed)
    /\ cfPc' = "repeated"
    /\ UNCHANGED <<cfReq, cfOut, hashSeed, lfVars, grVars, now, sfVars, wrVars,
                   exVars>>

\* a second call about the same file with one argument changed: another name,
\* other metadata, another text or other EXIF data
ClassifyFileVaried ==
    /\ cfPc = "called"
    /\ \E file_key \in FileKeys, metadata \in MetadataChoices,
          text_content \in TextChoices, exif_data \in ClassifyExifChoices :
           /\ Cardinality({i \in 1..4 :
                  <<file_key, metadata, text_content, exif_data>>[i]
                      # <<cfReq.file_key, cfReq.metadata, cfReq.text_content,
                          cfReq.exif_data>>[i]}) = 1
           /\ cfOut2' = ClassifyFileExecute(file_key, metadata, text_content, exif_data,
                                            hashSeed)
    /\ cfPc' = "varied"
    /\ UNCHANGED <<cfReq, cfOut, hashSeed, lfVars, grVars, now, sfVars, wrVars,
                   exVars>>


(***************************************************************************)
(* ExtractExifTool (src/agents/tools/extract-exif.py).                     *)
(* Raw EXIF is the dict the reader _extract_exif_data returns: a record    *)
(* with the set "keys" of the keys it holds.  The reader of this code is a *)
(* mock with one answer; execute is modelled for any answer.  Coordinates  *)
(* are in ten-thousandths of a degree, megapixels in tenths.  The keys the *)
(* code copies unchanged (iso_speed, exposure_time, f_number, the focal    *)
(* lengths, the resolutions, bits_per_sample) are left out of the record.  *)
(***************************************************************************)
\* the GPS keys a raw EXIF dict may hold
GpsKeys ==
    { "gps_latitude", "gps_latitude_ref", "gps_longitude", "gps_longitude_ref",
      "gps_altitude", "gps_altitude_ref", "gps_timestamp", "gps_datestamp" }

\* the keys of the mock's dict
ExifKeys ==
    GpsKeys \cup
    { "make", "model", "software", "datetime_original", "datetime_digitized",
      "datetime_modified", "orientation", "flash", "exposure_program", "metering_mode",
      "white_balance", "image_width", "image_height", "resolution_unit", "color_space" }

\* altitude in tenths of a metre
mock_exif ==
    [ make |-> "Apple", model |-> "iPhone 13 Pro", software |-> "iOS 16.6",
      datetime_original |-> "2023:08:15 14:30:25",
      datetime_digitized |-> "2023:08:15 14:30:25",
      datetime_modified |-> "2023:08:15 14:30:25",
      keys |-> ExifKeys,
      gps_latitude |-> 377749, gps_latitude_ref |-> "N",
      gps_longitude |-> -1224194, gps_longitude_ref |-> "W",
      gps_altitude |-> 105, gps_altitude_ref |-> 0,
      gps_timestamp |-> "21:30:25", gps_datestamp |-> "2023:08:15",
      orientation |-> 1,
      image_width |-> 4032, image_height |-> 3024, resolution_unit |-> 2, color_space |-> 1,
      flash |-> 16, exposure_program |-> 2, metering_mode |-> 5, white_balance |-> 0 ]

\* the reader found nothing: None, or a dict without keys
NoRawExif == [mock_exif EXCEPT !.keys = {}]

\* the mock reader
_extract_exif_data(file_key) ==
    IF Contains(Lower(file_key), "no_exif") THEN NoRawExif ELSE mock_exif

\* pathlib's Path(file_key).suffix
PathSuffix(file_key) ==
    LET name == Basename(file_key)
        ext == SplitExt(name)
    IN  IF ext = "." THEN "" ELSE ext

exif_extensions == {".jpg", ".jpeg", ".tiff", ".tif", ".raw", ".cr2", ".nef", ".arw", ".dng"}
_supports_exif(file_key) == Lower(PathSuffix(file_key)) \in exif_extensions

\* "YYYY:MM:DD HH:MM:SS" to ISO; None when the string does not parse
_normalize_datetime(datetime_str) ==
    IF Contains(datetime_str, ":") /\ Len(datetime_str) >= 19
    THEN LET iso_str == SubSeq(datetime_str, 1, 4) \o "-" \o SubSeq(datetime_str, 6, 7)
                        \o "-" \o SubSeq(datetime_str, 9, Len(datetime_str))
             dt == fromisoformat(iso_str)
         IN  IF dt.err = "" THEN isoformat(dt) ELSE None
    ELSE None

NoGps ==
    [ present |-> FALSE, lat |-> 0, lng |-> 0, lat_ref |-> "", lng_ref |-> "",
      has_altitude |-> FALSE, altitude |-> 0, altitude_ref |-> 0, timestamp |-> None ]

\* exif_data.get(key, default)
GetOr(exif_data, key, value, default) == IF key \in exif_data.keys THEN value ELSE default

\* SignedBy with the reference letter ignored
Unsigned(value, ref, positive_refs) == value

\* value if ref in positive_refs else -value
SignedBy(value, ref, positive_refs) == IF ref \in positive_refs THEN value ELSE -value

\* the sign of a coordinate follows its reference letter; NoGps when a coordinate
\* is missing
_extract_gps(exif_data) ==
    LET lat_ref == GetOr(exif_data, "gps_latitude_ref", exif_data.gps_latitude_ref, "N")
        lon_ref == GetOr(exif_data, "gps_longitude_ref", exif_data.gps_longitude_ref, "W")
        altitude_ref == GetOr(exif_data, "gps_altitude_ref", exif_data.gps_altitude_ref, 0)
        gps_dt == fromisoformat(Replace(exif_data.gps_datestamp, ":", "-") \o " "
                                \o exif_data.gps_timestamp)
    IN  IF ~({"gps_latitude", "gps_longitude"} \subseteq exif_data.keys) THEN NoGps
        ELSE [ present |-> TRUE,
               lat |-> SignedBy(exif_data.gps_latitude, lat_ref, {"N", "n"}),
               lng |-> SignedBy(exif_data.gps_longitude, lon_ref, {"E", "e"}),
               lat_ref |-> lat_ref,
               lng_ref |-> lon_ref,
               has_altitude |-> "gps_altitude" \in exif_data.keys,
               altitude |-> IF "gps_altitude" \in exif_data.keys
                            THEN SignedBy(exif_data.gps_altitude, altitude_ref, {0})
                            ELSE 0,
               altitude_ref |-> IF "gps_altitude" \in exif_data.keys THEN altitude_ref ELSE 0,
               timestamp |-> IF /\ {"gps_timestamp", "gps_datestamp"} \subseteq exif_data.keys
                                /\ gps_dt.err = ""
                             THEN isoformat(gps_dt) ELSE None ]

_decode_flash(flash_value) ==
    CASE flash_value = 0 -> "No Flash"
      [] flash_value = 1 -> "Flash fired"
      [] flash_value = 5 -> "Strobe return light not detected"
      [] flash_value = 7 -> "Strobe return light detected"
      [] flash_value = 9 -> "Flash fired, compulsory flash mode"
      [] flash_value = 13 -> "Flash fired, compulsory flash mode, return light not detected"
      [] flash_value = 15 -> "Flash fired, compulsory flash mode, return light detected"
      [] flash_value = 16 -> "Flash did not fire, compulsory flash mode"
      [] flash_value = 24 -> "Flash did not fire, auto mode"
      [] flash_value = 25 -> "Flash fired, auto mode"
      [] flash_value = 29 -> "Flash fired, auto mode, return light not detected"
      [] flash_value = 31 -> "Flash fired, auto mode, return light detected"
      [] OTHER -> "Flash mode " \o ToString(flash_value)

_decode_exposure_program(program_value) ==
    CASE program_value = 0 -> "Not defined"
      [] program_value = 1 -> "Manual"
      [] program_value = 2 -> "Normal program"
      [] program_value = 3 -> "Aperture priority"
      [] program_value = 4 -> "Shutter priority"
      [] program_value = 5 -> "Creative program"
      [] program_value = 6 -> "Action program"
      [] program_value = 7 -> "Portrait mode"
      [] program_value = 8 -> "Landscape mode"
      [] OTHER -> "Program mode " \o ToString(program_value)

_decode_metering_mode(metering_value) ==
    CASE metering_value = 0 -> "Unknown"
      [] metering_value = 1 -> "Average"
      [] metering_value = 2 -> "Center-weighted average"
      [] metering_value = 3 -> "Spot"
      [] metering_value = 4 -> "Multi-spot"
      [] metering_value = 5 -> "Pattern"
      [] metering_value = 6 -> "Partial"
      [] OTHER -> "Metering mode " \o ToString(metering_value)

\* "Auto" if exif_data["white_balance"] == 0 else "Manual"
DecodeWhiteBalance(value) == IF value = 0 THEN "Auto" ELSE "Manual"

\* the camera dict of a result; a field is None when the dict lacks the key, and
\* present tells that the dict is not empty
NoCameraInfo ==
    [ present |-> FALSE, make |-> None, model |-> None, software |-> None, flash |-> None,
      exposure_program |-> None, metering_mode |-> None, white_balance |-> None ]

_extract_camera_info(exif_data) ==
    [ present |-> exif_data.keys \cap { "make", "model", "software", "flash",
                                        "exposure_program", "metering_mode",
                                        "white_balance" } # {},
      make |-> GetOr(exif_data, "make", exif_data.make, None),
      model |-> GetOr(exif_data, "model", exif_data.model, None),
      software |-> GetOr(exif_data, "software", exif_data.software, None),
      flash |-> GetOr(exif_data, "flash", _decode_flash(exif_data.flash), None),
      exposure_program |->
          GetOr(exif_data, "exposure_program",
                _decode_exposure_program(exif_data.exposure_program), None),
      metering_mode |->
          GetOr(exif_data, "metering_mode", _decode_metering_mode(exif_data.metering_mode),
                None),
      white_balance |->
          GetOr(exif_data, "white_balance", DecodeWhiteBalance(exif_data.white_balance),
                None) ]

\* the image_info dict of a result; 0 and None stand for a key the dict lacks
NoImageInfo ==
    [ present |-> FALSE, width |-> 0, height |-> 0, megapixels |-> 0,
      resolution_unit |-> None, color_space |-> None ]

\* round(width * height / 1000000, 1), in tenths
_extract_image_info(exif_data) ==
    [ present |-> exif_data.keys \cap { "image_width", "image_height", "resolution_unit",
                                        "color_space" } # {},
      width |-> GetOr(exif_data, "image_width", exif_data.image_width, 0),
      height |-> GetOr(exif_data, "image_height", exif_data.image_height, 0),
      megapixels |-> IF {"image_width", "image_height"} \subseteq exif_data.keys
                     THEN (exif_data.image_width * exif_data.image_height + 50000)
                              \div 100000
                     ELSE 0,
      resolution_unit |->
          GetOr(exif_data, "resolution_unit",
                IF exif_data.resolution_unit = 2 THEN "inches" ELSE "cm", None),
      color_space |->
          GetOr(exif_data, "color_space",
                IF exif_data.color_space = 1 THEN "sRGB" ELSE "Adobe RGB", None) ]

\* the three timestamps normalized: None for a key the dict lacks and for a string
\* that does not parse; err when a value is no string (':' in datetime_str raises)
_extract_datetime(exif_data) ==
    LET value(key, v) == GetOr(exif_data, key, v, None)
        original == value("datetime_original", exif_data.datetime_original)
        digitized == value("datetime_digitized", exif_data.datetime_digitized)
        modified == value("datetime_modified", exif_data.datetime_modified)
        norm(v) == IF v = None THEN None ELSE _normalize_datetime(v)
    IN  IF NotAString \in {original, digitized, modified}
        THEN [ err |-> "argument of type 'int' is not iterable", original |-> None,
               digitized |-> None, modified |-> None ]
        ELSE [ err |-> "", original |-> norm(original), digitized |-> norm(digitized),
               modified |-> norm(modified) ]

\* a result that starts with the default orientation instead of None
NoExifResult_with_orientation ==
    [ made |-> FALSE, file_key |-> None, has_exif |-> FALSE, datetime |-> None,
      datetime_digitized |-> None, datetime_modified |-> None, gps |-> NoGps,
      camera |-> NoCameraInfo, image_info |-> NoImageInfo, orientation |-> 1,
      processing_notes |-> <<>> ]

NoExifResult ==
    [ made |-> FALSE, file_key |-> None, has_exif |-> FALSE, datetime |-> None,
      datetime_digitized |-> None, datetime_modified |-> None, gps |-> NoGps,
      camera |-> NoCameraInfo, image_info |-> NoImageInfo, orientation |-> 0,
      processing_notes |-> <<>> ]

\* lines 54-82 of execute for the dict the reader returned
ExtractFrom(result, exif_data, datetime_info) ==
    IF exif_data.keys = {}
    THEN [result EXCEPT !.processing_notes = Append(@, "No EXIF data found in file")]
    ELSE IF datetime_info.err # ""
    THEN [result EXCEPT !.has_exif = TRUE,
             !.processing_notes = Append(@, "EXIF extraction error: " \o datetime_info.err)]
    ELSE IF datetime_info.original = None
            /\ {datetime_info.digitized, datetime_info.modified} # {None}
    THEN \* datetime_info["original"] of a dict without that key
         [result EXCEPT !.has_exif = TRUE,
              !.processing_notes = Append(@, "EXIF extraction error: 'original'")]
    ELSE [result EXCEPT
             !.has_exif = TRUE,
             !.datetime = datetime_info.original,
             !.datetime_digitized = datetime_info.digitized,
             !.datetime_modified = datetime_info.modified,
             !.gps = _extract_gps(exif_data),
             !.camera = _extract_camera_info(exif_data),
             !.image_info = _extract_image_info(exif_data),
             !.orientation = GetOr(exif_data, "orientation", exif_data.orientation, 1)]

\* ExtractExifTool.execute when the reader answers reading; orientation 0 stands
\* for None
ExtractExifReading(file_key, reading) ==
    IF file_key = None
    THEN [NoExifResult EXCEPT !.made = TRUE, !.file_key = file_key,
             !.processing_notes = Append(@,
                 "EXIF extraction error: expected str, bytes or os.PathLike object, not NoneType")]
    ELSE IF ~_supports_exif(file_key)
    THEN [NoExifResult EXCEPT !.made = TRUE, !.file_key = file_key,
             !.processing_notes = Append(@, "File type does not support EXIF metadata")]
    ELSE ExtractFrom([NoExifResult EXCEPT !.made = TRUE, !.file_key = file_key],
                     reading, _extract_datetime(reading))

\* ExtractExifTool.execute with the reader of the code
ExtractExifExecute(file_key) ==
    ExtractExifReading(file_key,
                       IF file_key = None THEN NoRawExif ELSE _extract_exif_data(file_key))


\* what the reader may answer for a file: timestamps that parse, that do not, a
\* value that is no string, keys that are missing, codes inside and outside
\* the decode tables
OriginalChoices == {"2023:08:15 14:30:25", "2023:13:45 14:30:25", "yesterday", NotAString}
DigitizedChoices == {"2023:08:15 14:30:25", "2023:02:30 10:00:00"}
CodeChoices == { <<16, 2, 5, 0>>, <<2, 9, 255, 7>>, <<0, 0, 0, 1>> }
ExifKeySets ==
    { ExifKeys, ExifKeys \ {"datetime_original"},
      ExifKeys \ {"datetime_digitized", "datetime_modified"},
      ExifKeys \ {"flash", "exposure_program", "metering_mode", "white_balance",
                  "image_width", "image_height", "resolution_unit", "color_space",
                  "orientation", "gps_latitude"},
      {} }
ExifReadings ==
    { [mock_exif EXCEPT !.keys = k, !.datetime_original = o, !.datetime_digitized = d,
                        !.datetime_modified = d, !.make = m,
                        !.flash = c[1], !.exposure_program = c[2],
                        !.metering_mode = c[3], !.white_balance = c[4]] :
        k \in ExifKeySets, o \in OriginalChoices, d \in DigitizedChoices,
        c \in CodeChoices, m \in {"Apple", "Canon"} }
ExifFileKeys == {"photos/IMG_1.jpg", "scan.TIFF", "notes.txt", "a/no_exif.jpg", None}

\* one call of execute; exRaw is what the reader answers for the file
ExtractExifCall ==
    /\ exPc = "exif"
    /\ \E file_key \in ExifFileKeys : exOut' = ExtractExifReading(file_key, exRaw)
    /\ exPc' = "extracted"
    /\ UNCHANGED <<exRaw, exGps, lfVars, grVars, now, sfVars, cfVars, wrVars>>

\* the result of execute as the exif_data argument of the classifier and of the
\* planner: make, model and software are under camera, and the result has no
\* key camera_make, camera_model or software
ExifRecordOf(result) ==
    [EmptyExif EXCEPT
        !.datetime = result.datetime,
        !.gps = result.gps.present,
        !.camera = [ present |-> result.camera.present, make |-> result.camera.make,
                     model |-> result.camera.model, software |-> result.camera.software ]]

\* the pipeline step that follows: the file is classified with the extracted record
ClassifyExtracted ==
    /\ exPc = "extracted" /\ cfPc = "idle"
    /\ \E metadata \in { [NoMetadata EXCEPT !.has_size = TRUE, !.size = 3145728],
                         [NoMetadata EXCEPT !.mime_type = "image/jpeg", !.has_size = TRUE,
                                            !.size = 20480] } :
           /\ cfReq' = [ file_key |-> exOut.file_key, metadata |-> metadata,
                         text_content |-> "", exif_data |-> ExifRecordOf(exOut) ]
           /\ cfOut' = ClassifyFileExecute(exOut.file_key, metadata, "", ExifRecordOf(exOut),
                                           hashSeed)
    /\ cfPc' = "called"
    /\ UNCHANGED <<cfOut2, hashSeed, lfVars, grVars, now, sfVars, wrVars, exVars>>

\* the raw dicts explored: coordinates of any sign, reference letters of both cases,
\* and dicts that lack the references, a coordinate, the altitude or the time stamp
LatitudeChoices == {0, 377749, 900000}
LongitudeChoices == {0, 1224194, -1224194}
LatitudeRefs == {"N", "S", "n", "s"}
LongitudeRefs == {"E", "W", "e", "w"}
GpsKeySets ==
    { GpsKeys,
      GpsKeys \ {"gps_latitude_ref", "gps_longitude_ref"},
      GpsKeys \ {"gps_longitude"},
      GpsKeys \ {"gps_altitude", "gps_altitude_ref", "gps_timestamp"} }
RawExifChoices ==
    { [mock_exif EXCEPT !.keys = keys, !.gps_latitude = lat, !.gps_latitude_ref = lat_ref,
                        !.gps_longitude = lon, !.gps_longitude_ref = lon_ref] :
          keys \in GpsKeySets, lat \in LatitudeChoices, lat_ref \in LatitudeRefs,
          lon \in LongitudeChoices, lon_ref \in LongitudeRefs }

\* _extract_gps applied to the dict at hand
ExtractGps ==
    /\ exPc = "ready"
    /\ exGps' = _extract_gps(exRaw)
    /\ exPc' = "done"
    /\ UNCHANGED <<exRaw, exOut, lfVars, grVars, now, sfVars, cfVars, wrVars>>


(***************************************************************************)
(* The JSON function wrappers at the end of the five tool files.           *)
(* A call is [fn, input]: the wrapper and its input string.  The outcome   *)
(* is [made, raised, handled, keys, ident, message]: raised names the      *)
(* exception that leaves the wrapper ("" when it returns), handled tells   *)
(* that the response was built by the wrapper's except branch, keys are    *)
(* the keys of the JSON object returned, ident is the value of the stage's *)
(* identifying key (scope or file_key) when the response has one, message  *)
(* is the error string the response carries (None when it carries none).   *)
(***************************************************************************)
Wrappers ==
    { "guard_rail_function", "list_files_function", "extract_exif_function",
      "classify_file_function", "suggest_folder_function" }

\* the JSON objects among the inputs, by the keys the wrappers read
NoFields ==
    [ scope |-> None, user_id |-> None, file_key |-> None, metadata |-> NoMetadata,
      text_content |-> "", exif_data |-> EmptyExif,
      classification |-> [is_dict |-> TRUE, primary_category |-> "unknown",
                          subcategory |-> None, tags |-> <<>>] ]
JsonObjects ==
    << [ text |-> "{}", fields |-> NoFields ],
       [ text |-> "{\"scope\": \"/data/missing\", \"user_id\": \"user1\", \"file_key\": \"clip.mp4\"}",
         fields |-> [NoFields EXCEPT !.scope = "/data/missing", !.user_id = "user1",
                                     !.file_key = "clip.mp4"] ],
       [ text |-> "{\"file_key\": \"inbox/IMG_20230815.jpg\", \"classification\": null}",
         fields |-> [NoFields EXCEPT !.file_key = "inbox/IMG_20230815.jpg",
                                     !.classification = NotADict] ],
       [ text |-> "{\"classification\": {\"primary_category\": null}}",
         fields |-> [NoFields EXCEPT !.classification.primary_category = None] ],
       [ text |-> "{\"scope\": \"/data/inbox\", \"file_key\": \"x/no_exif.JPG\"}",
         fields |-> [NoFields EXCEPT !.scope = "/data/inbox", !.file_key = "x/no_exif.JPG"] ],
       [ text |-> "{\"file_key\": \"notes.txt\", \"classification\": {\"primary_category\": \"documents\"}}",
         fields |-> [NoFields EXCEPT !.file_key = "notes.txt",
                                     !.classification.primary_category = "documents"] ] >>

WrapperInputs ==
    {"not json", "", "{oops}", "[]", "5", "null", "\"x\""} \cup {JsonObjects[i].text : i \in 1..Len(JsonObjects)}

\* json.loads: the type of the value decoded, or the JSONDecodeError
json_loads(input_data) ==
    LET first == IF input_data = "" THEN "" ELSE CharAt(input_data, 1)
        last == IF input_data = "" THEN "" ELSE CharAt(input_data, Len(input_data))
    IN  IF first = "{" /\ last = "}"
        THEN IF \A i \in 1..Len(JsonObjects) : JsonObjects[i].text # input_data
             THEN [ err |-> "Expecting property name enclosed in double quotes: "
                            \o "line 1 column 2 (char 1)",
                    type |-> "", fields |-> NoFields ]
             ELSE
             [ err |-> "", type |-> "dict",
               fields |-> JsonObjects[CHOOSE i \in 1..Len(JsonObjects) :
                                          JsonObjects[i].text = input_data].fields ]
        ELSE IF first = "[" /\ last = "]" THEN [err |-> "", type |-> "list", fields |-> NoFields]
        ELSE IF IsDigits(input_data) THEN [err |-> "", type |-> "int", fields |-> NoFields]
        ELSE IF input_data = "null" THEN [err |-> "", type |-> "NoneType", fields |-> NoFields]
        ELSE IF Len(input_data) >= 2 /\ first = "\"" /\ last = "\""
        THEN [err |-> "", type |-> "str", fields |-> NoFields]
        ELSE [err |-> "Expecting value: line 1 column 1 (char 0)", type |-> "", fields |-> NoFields]

NoOutcome ==
    [ made |-> FALSE, raised |-> "", handled |-> FALSE, keys |-> {}, ident |-> None,
      message |-> None ]
Returned(keys, ident, message) ==
    [ made |-> TRUE, raised |-> "", handled |-> FALSE, keys |-> keys, ident |-> ident,
      message |-> message ]
Handled(keys, ident, message) == [Returned(keys, ident, message) EXCEPT !.handled = TRUE]
Escaped(exception) == [NoOutcome EXCEPT !.made = TRUE, !.raised = exception]

\* what went wrong in the try block: "" when nothing did
TryFault(data) ==
    IF data.err # "" THEN data.err
    ELSE IF data.type # "dict" THEN "'" \o data.type \o "' object has no attribute 'get'"
    ELSE ""

\* An except branch that reads data.get(...): data is unbound when json.loads
\* raised, and has no get when it is no dict.
HandlerReadingData(data, keys, ident, message) ==
    IF data.err # "" THEN Escaped("UnboundLocalError")
    ELSE IF data.type # "dict" THEN Escaped("AttributeError")
    ELSE Handled(keys, ident, message)

LastOrNone(notes) == IF notes = <<>> THEN None ELSE notes[Len(notes)]

\* json.dumps(result) of each tool's result
ListFilesResponse(result) ==
    Returned({"files", "total_found", "total_size", "next_cursor", "has_more", "scan_stats",
              "scope_info"} \cup (IF result.error # None THEN {"error"} ELSE {}),
             None, result.error)
ClassifyFileResponse(result) ==
    Returned({"file_key", "primary_category", "subcategory", "tags", "confidence",
              "suggested_folder", "content_description", "people_detected", "location",
              "date_taken", "processing_notes"}
             \cup (IF result.confidence_boost >= 0 THEN {"confidence_boost"} ELSE {}),
             result.file_key, None)
\* execute may raise: then the except branch of the wrapper answers
SuggestFolderResponse(result) ==
    IF result.raised = "UnboundLocalError"
    THEN Handled({"primary_path", "alternatives", "reasoning", "confidence"}, None,
                 "Error in path generation: cannot access local variable 'file_category' "
                 \o "where it is not associated with a value")
    ELSE IF result.raised = "AttributeError"
    THEN Handled({"primary_path", "alternatives", "reasoning", "confidence"}, None,
                 "Error in path generation: 'NoneType' object has no attribute 'capitalize'")
    ELSE Returned({"primary_path", "alternatives", "reasoning", "confidence"}, None,
                  IF result.failed THEN LastOrNone(result.reasoning) ELSE None)

list_files_function(input_data, entries) ==
    LET data == json_loads(input_data)
    IN  IF TryFault(data) # ""
        THEN HandlerReadingData(data, {"files", "total_found", "error", "scope"},
                                data.fields.scope, TryFault(data))
        ELSE ListFilesResponse(
                 ListFilesExecute(data.fields.scope, None, 1000, NoFilters, entries))

\* the providers of the guard rail are mocks: their answers are fixed
guard_rail_function(input_data) ==
    LET data == json_loads(input_data)
        result == GuardRailExecute(
                      [ user_id |-> data.fields.user_id, tier |-> "Standard",
                        read_access |-> TRUE, quota_exhausted |-> FALSE,
                        scope_info |-> [ file_count |-> 150, total_size |-> 500 * MB,
                                         average_file_size |-> 3379,
                                         file_types |-> {"jpg", "png", "pdf", "docx", "txt"} ],
                        system_status |-> [cpu_usage |-> 455, memory_available |-> 4096] ])
    IN  IF TryFault(data) # ""
        THEN Handled({"ok", "warnings", "quotas", "permissions"}, None,
                     "Guard rail execution failed: " \o TryFault(data))
        ELSE Returned({"ok", "warnings", "quotas", "permissions", "estimated_time",
                       "estimated_cost"}, None,
                      IF result.ok THEN None ELSE LastOrNone(result.warnings))

extract_exif_function(input_data) ==
    LET data == json_loads(input_data)
    IN  IF TryFault(data) # ""
        THEN HandlerReadingData(data, {"file_key", "has_exif", "error"},
                                data.fields.file_key, TryFault(data))
        ELSE Returned({"file_key", "has_exif", "datetime", "gps", "camera", "image_info",
                       "orientation", "processing_notes"},
                      ExtractExifExecute(data.fields.file_key).file_key, None)

classify_file_function(input_data, seed) ==
    LET data == json_loads(input_data)
    IN  IF TryFault(data) # ""
        THEN HandlerReadingData(data, {"file_key", "primary_category", "tags", "confidence",
                                       "error"},
                                data.fields.file_key, TryFault(data))
        ELSE ClassifyFileResponse(
                 ClassifyFileExecute(data.fields.file_key, data.fields.metadata,
                                     data.fields.text_content, data.fields.exif_data, seed))

suggest_folder_function(input_data, clock) ==
    LET data == json_loads(input_data)
    IN  IF TryFault(data) # ""
        THEN Handled({"primary_path", "alternatives", "reasoning", "confidence"}, None,
                     "Error in path generation: " \o TryFault(data))
        ELSE SuggestFolderResponse(
                 SuggestFolderExecute(data.fields.classification, data.fields.exif_data, clock))

NoWrapperCall == [fn |-> None, input |-> None]

\* one call of one wrapper
WrapperCall ==
    /\ ~wrOut.made
    /\ \E fn \in Wrappers, input \in WrapperInputs :
           /\ wrCall' = [fn |-> fn, input |-> input]
           /\ wrOut' = CASE fn = "list_files_function" -> list_files_function(input, lfEntries)
                         [] fn = "guard_rail_function" -> guard_rail_function(input)
                         [] fn = "extract_exif_function" -> extract_exif_function(input)
                         [] fn = "classify_file_function" -> classify_file_function(input, hashSeed)
                         [] fn = "suggest_folder_function" -> suggest_folder_function(input, now)
    /\ UNCHANGED <<lfVars, grVars, now, sfVars, cfVars, exVars>>


\* the photo classifications explored for the rule chain of _suggest_photo_path:
\* tags as ClassifyFileTool makes them (photos, personal_wedding, geotagged) and
\* plain ones
PhotoSubcategories == {None, "screenshot", "professional_photo", "mobile_photo"}
PhotoTagChoices ==
    { <<>>, <<"photos">>, <<"wedding">>, <<"birthday", "wedding">>,
      <<"photos", "personal_wedding">>, <<"person_1">>, <<"family", "wedding">>,
      <<"screenshot_2024">>, <<"party time">>, <<"photos", "geotagged">> }

\* a call of SuggestFolderTool.execute for a photo
SuggestPhotoCall ==
    /\ sfPc = "idle"
    /\ \E subcategory \in PhotoSubcategories, tags \in PhotoTagChoices,
          exif_data \in ExifChoices :
           LET classification == [ is_dict |-> TRUE, primary_category |-> "photos",
                                   subcategory |-> subcategory, tags |-> tags ]
           IN  /\ sfReq' = [classification |-> classification, exif_data |-> exif_data]
               /\ sfOut' = SuggestFolderExecute(classification, exif_data, now)
    /\ sfPc' = "called"
    /\ UNCHANGED <<sfOut2, now, lfVars, grVars, cfVars, wrVars, exVars>>

\* a second call of SuggestFolderTool.execute at the same time for the same
\* classification with its tags in the other order
SuggestFolderReordered ==
    /\ sfPc = "called"
    /\ sfOut2' = SuggestFolderExecute([sfReq.classification EXCEPT !.tags = Reverse(@)],
                                      sfReq.exif_data, now)
    /\ sfPc' = "reordered"
    /\ UNCHANGED <<sfReq, sfOut, now, lfVars, grVars, cfVars, wrVars, exVars>>

(***************************************************************************)
(* The two tools in a row: the Classification ClassifyFileTool returned is *)
(* handed, with the EXIF data of the same file, to SuggestFolderTool.      *)
(***************************************************************************)
\* the keys of a Classification that SuggestFolderTool.execute reads
ClassificationOf(result) ==
    [ is_dict |-> TRUE, primary_category |-> result.primary_category,
      subcategory |-> result.subcategory, tags |-> result.tags ]

\* SuggestFolderTool.execute on the classification of the file just classified
PlanClassified ==
    /\ cfPc = "called" /\ sfPc = "idle"
    /\ sfReq' = [classification |-> ClassificationOf(cfOut), exif_data |-> cfReq.exif_data]
    /\ sfOut' = SuggestFolderExecute(ClassificationOf(cfOut), cfReq.exif_data, now)
    /\ sfPc' = "called"
    /\ UNCHANGED <<sfOut2, now, lfVars, grVars, cfVars, wrVars, exVars>>

(***************************************************************************)
(* Specifications: one per tool; the variables of the other tools rest     *)
(***************************************************************************)
GrIdle == grReq = NoGuardRequest /\ grRes = NoVerdict
SfIdle ==
    /\ now = StartClock /\ sfReq = NoSuggestRequest /\ sfOut = NoSuggestion
    /\ sfOut2 = NoSuggestion /\ sfPc = "idle"
CfIdle ==
    /\ cfReq = NoClassifyRequest /\ cfOut = NoClassification /\ cfOut2 = NoClassification
    /\ cfPc = "idle" /\ hashSeed = 0
WrIdle == wrCall = NoWrapperCall /\ wrOut = NoOutcome
ExIdle == exRaw = mock_exif /\ exGps = NoGps /\ exPc = "idle" /\ exOut = NoExifResult
LfIdle ==
    /\ lfScope = None /\ lfEntries = <<>> /\ lfFilters = NoFilters /\ lfLimit = 0
    /\ lfCursor = None /\ lfPages = <<>> /\ lfResp = NoResponse /\ lfPc = "idle"

InitList ==
    /\ lfScope \in ScopeChoices
    /\ lfEntries \in (IF IsS3(lfScope) \/ ~PathExists(lfScope) THEN {<<>>}
                      ELSE BoundedSeqs(EntryKinds, MaxEntries))
    /\ lfFilters \in FilterChoices
    /\ lfLimit \in 1..MaxLimit
    /\ lfCursor = None
    /\ lfPages = <<>>
    /\ lfResp = NoResponse
    /\ lfPc = "ready"
    /\ GrIdle /\ SfIdle /\ CfIdle /\ WrIdle /\ ExIdle

NextList == ListFilesCall

SpecList == InitList /\ [][NextList]_vars

InitGuard == GrIdle /\ LfIdle /\ SfIdle /\ CfIdle /\ WrIdle /\ ExIdle
NextGuard == GuardRailCall
SpecGuard == InitGuard /\ [][NextGuard]_vars

InitSuggest == SfIdle /\ LfIdle /\ GrIdle /\ CfIdle /\ WrIdle /\ ExIdle
NextSuggest == SuggestFolderCall \/ Tick \/ SuggestFolderRepeat
SpecSuggest == InitSuggest /\ [][NextSuggest]_vars

InitClassify ==
    /\ cfReq = NoClassifyRequest /\ cfOut = NoClassification /\ cfOut2 = NoClassification
    /\ cfPc = "idle" /\ hashSeed \in 0..MaxSeed
    /\ LfIdle /\ GrIdle /\ SfIdle /\ WrIdle /\ ExIdle
NextClassify == ClassifyFileCall \/ Restart \/ ClassifyFileRepeat
SpecClassify == InitClassify /\ [][NextClassify]_vars

InitWrap ==
    /\ WrIdle /\ ExIdle /\ LfIdle /\ GrIdle /\ SfIdle
    /\ cfReq = NoClassifyRequest /\ cfOut = NoClassification /\ cfOut2 = NoClassification
    /\ cfPc = "idle" /\ hashSeed \in 0..MaxSeed
NextWrap == WrapperCall
SpecWrap == InitWrap /\ [][NextWrap]_vars

InitPipeline == InitClassify
NextPipeline == ClassifyFileCall \/ PlanClassified
SpecPipeline == InitPipeline /\ [][NextPipeline]_vars

InitVaried == InitClassify
NextVaried == ClassifyFileCall \/ ClassifyFileVaried
SpecVaried == InitVaried /\ [][NextVaried]_vars

NextPhoto == SuggestPhotoCall
SpecPhoto == InitSuggest /\ [][NextPhoto]_vars

NextReorder == SuggestFolderCall \/ SuggestFolderReordered
SpecReorder == InitSuggest /\ [][NextReorder]_vars

InitGps ==
    /\ exRaw \in RawExifChoices /\ exGps = NoGps /\ exPc = "ready"
    /\ exOut = NoExifResult
    /\ LfIdle /\ GrIdle /\ SfIdle /\ CfIdle /\ WrIdle
NextGps == ExtractGps
SpecGps == InitGps /\ [][NextGps]_vars

InitExif ==
    /\ exRaw \in ExifReadings /\ exGps = NoGps /\ exPc = "exif" /\ exOut = NoExifResult
    /\ LfIdle /\ GrIdle /\ SfIdle /\ CfIdle /\ WrIdle
NextExif == ExtractExifCall \/ ClassifyExtracted
SpecExif == InitExif /\ [][NextExif]_vars

(***************************************************************************)
(* Claims about ListFilesTool                                              *)
(***************************************************************************)
\* the single unpaged traversal of the matching files of a local scope
FullTraversal == _list_local_files(lfEntries, 0, Len(lfEntries) + 1, lfFilters)

\* the number of matching files the scope holds from cursor position start on
RemainingMatches(start) ==
    IF IsS3(lfScope)
    THEN Cardinality({i \in start..(start + lfLimit + S3Window) :
                          S3ObjectPasses(MockS3Object(lfScope, i), lfFilters)})
    ELSE Len(_list_local_files(lfEntries, start, Len(lfEntries) + 1, lfFilters))

FilePassesFilters(f) ==
    /\ _matches_extension_filter(f.name, lfFilters)
    /\ _matches_size_filter(f.size, lfFilters)
    /\ IncludeHidden(lfFilters) \/ ~StartsWith(f.name, ".")

\* C1: once a paged session over a local scope, started with no cursor, has ended
\* (has_more = false), the concatenation of its pages is the unpaged traversal of the
\* matching files: nothing twice, nothing omitted.
C1_PagesAreFullTraversal ==
    (lfPc = "done" /\ ~IsS3(lfScope) /\ lfResp.error = None) => lfPages = FullTraversal

\* C7: every page holds at most limit files, all of which pass the filters, and it
\* holds fewer than limit files only when the scope (local or s3://) has no further
\* matching file from the page's cursor position on.
C7_FiltersBeforePagination ==
    (lfResp.made /\ lfResp.error = None) =>
        /\ Len(lfResp.files) <= lfLimit
        /\ \A i \in 1..Len(lfResp.files) : FilePassesFilters(lfResp.files[i])
        /\ Len(lfResp.files) < lfLimit =>
               Len(lfResp.files) = RemainingMatches(_parse_cursor(lfResp.cursor))


(***************************************************************************)
(* Claims about GuardRailTool                                              *)
(***************************************************************************)
\* the causes of a rejection, read off the request and the providers' answers
PermissionMissing == ~grReq.read_access
QuotaLookupRaised == grReq.read_access /\ grReq.tier = UnhashableTier
QuotaExhausted ==
    /\ grReq.tier # UnhashableTier
    /\ _check_quotas(grReq.tier, grReq.quota_exhausted).files_remaining <= 0
ScopeOverflow ==
    /\ grReq.tier # UnhashableTier
    /\ grReq.scope_info.file_count
           > _check_quotas(grReq.tier, grReq.quota_exhausted).max_files_per_job

\* C4 as stated: the verdict is ok=false if and only if read permission is missing,
\* files_remaining <= 0, or the file count exceeds the tier's max_files_per_job.
C4_RejectedIffThreeCauses ==
    grRes.made =>
        (grRes.ok = FALSE <=> (PermissionMissing \/ QuotaExhausted \/ ScopeOverflow))

\* C4 as amended: the verdict is ok=false if and only if read permission is missing,
\* files_remaining <= 0, the file count exceeds the tier's max_files_per_job, or the
\* quota lookup raised an exception that execute caught; whatever the resource
\* snapshot, the estimates and the detected issues are, they only add warnings.
C4_RejectedIffCauseOrFault ==
    grRes.made =>
        /\ grRes.ok = FALSE <=>
               (PermissionMissing \/ QuotaLookupRaised \/ QuotaExhausted \/ ScopeOverflow)
        /\ grRes.ok =>
               /\ grReq.system_status.cpu_usage > 800 =>
                      "High system load may cause slower processing" \in SeqElems(grRes.warnings)
               /\ grReq.system_status.memory_available < 2000 =>
                      "Low memory available, consider smaller batch sizes" \in SeqElems(grRes.warnings)
               /\ grReq.scope_info.file_count > 5000 =>
                      "Large scope detected - consider processing in batches" \in SeqElems(grRes.warnings)

\* an admitted job on a loaded machine with a scope of more than 5000 files
C4_Witness ==
    /\ grRes.made /\ grRes.ok
    /\ grReq.system_status.cpu_usage > 800
    /\ grReq.system_status.memory_available < 2000
    /\ grReq.scope_info.file_count > 5000
    /\ Len(grRes.warnings) >= 3

\* the limits the claim names
ClaimedLimit(tier) ==
    CASE tier = "Standard" -> 100 [] tier = "Pro" -> 1000 [] tier = "Veteran" -> 10000

\* C5: for Standard, Pro and Veteran, when the scope-size step is reached, a file count
\* above the tier's limit (100, 1000, 10000) gives ok=false with the one warning naming
\* the count and "exceeding limit of <limit>"; a count up to the limit is admitted.
C5_ScopeOverflowRejected ==
    ( /\ grRes.made
      /\ grReq.tier \in {"Standard", "Pro", "Veteran"}
      /\ grReq.read_access /\ ~grReq.quota_exhausted ) =>
        LET n == grReq.scope_info.file_count
            m == ClaimedLimit(grReq.tier)
        IN  /\ n > m =>
                  /\ grRes.ok = FALSE
                  /\ Len(grRes.warnings) = 1
                  /\ Contains(grRes.warnings[1], "Scope contains " \o ToString(n) \o " files")
                  /\ Contains(grRes.warnings[1], "exceeding limit of " \o ToString(m))
            /\ n <= m =>
                  /\ grRes.ok = TRUE
                  /\ \A i \in 1..Len(grRes.warnings) :
                         ~Contains(grRes.warnings[i], "exceeding limit of")

\* Standard tier, 150 files
C5_Witness ==
    /\ grRes.made /\ grReq.tier = "Standard" /\ grReq.scope_info.file_count = 150
    /\ grRes.ok = FALSE
    /\ grRes.warnings = <<"Scope contains 150 files, exceeding limit of 100">>


\* the per-file time (in halves of a second) and the size multiplier (in halves)
\* the claim names, for an average size in KB
ClaimedTimePerFile(tier) ==
    CASE tier = "Standard" -> 4 [] tier = "Pro" -> 3 [] tier = "Veteran" -> 2
ClaimedMultiplier(total_size, file_count) ==
    IF file_count > 0 /\ total_size > 50 * MB * file_count THEN 4
    ELSE IF file_count > 0 /\ total_size > 10 * MB * file_count THEN 3
    ELSE 2
ClaimedCostPerFile(tier) ==
    CASE tier = "Standard" -> 1 [] tier = "Pro" -> 2 [] tier = "Veteran" -> 5

\* C17: for an admitted job of tier Standard, Pro or Veteran, estimated_time is
\* int(file_count x per_file_time x size_multiplier) with per_file_time 2.0, 1.5, 1.0
\* and size_multiplier 1.0 up to an average of 10 MB, 1.5 above 10 MB and 2.0 above
\* 50 MB, and estimated_cost is file_count x per_file_cost.
C17_EstimatesFollowSizeSteps ==
    (grRes.made /\ grRes.ok /\ grReq.tier \in {"Standard", "Pro", "Veteran"}) =>
        /\ grRes.estimated_time
               = ( grReq.scope_info.file_count * ClaimedTimePerFile(grReq.tier)
                   * ClaimedMultiplier(grReq.scope_info.total_size,
                                       grReq.scope_info.file_count) ) \div 4
        /\ grRes.estimated_cost
               = grReq.scope_info.file_count * ClaimedCostPerFile(grReq.tier)


\* the warning of the first check that fails, in the order permission, quota
\* lookup, quota, scope size
FirstFailureWarning ==
    IF PermissionMissing THEN "No read access to specified scope"
    ELSE IF QuotaLookupRaised THEN "Safety check failed: unhashable type: 'list'"
    ELSE IF QuotaExhausted THEN "File processing quota exceeded"
    ELSE "Scope contains " \o ToString(grReq.scope_info.file_count)
         \o " files, exceeding limit of "
         \o ToString(_check_quotas(grReq.tier, grReq.quota_exhausted).max_files_per_job)

\* C19: a rejected verdict carries exactly one warning, that of the first check that
\* failed in the order permission, quota, scope size; the quotas are empty when the
\* permission check (or the quota lookup itself) failed; no warning of the resource
\* snapshot or of the issue detection is present; both estimates are 0.
C19_StopsAtFirstFailure ==
    (grRes.made /\ ~grRes.ok) =>
        /\ grRes.warnings = <<FirstFailureWarning>>
        /\ (PermissionMissing \/ QuotaLookupRaised) => DOMAIN grRes.quotas = {}
        /\ ~(PermissionMissing \/ QuotaLookupRaised) =>
               grRes.quotas = _check_quotas(grReq.tier, grReq.quota_exhausted)
        /\ grRes.estimated_time = 0 /\ grRes.estimated_cost = 0

\* no read access, an exhausted quota, 10001 files for a Standard user and a loaded
\* machine: only the permission warning is returned
C19_Witness ==
    /\ grRes.made /\ ~grRes.ok
    /\ PermissionMissing /\ grReq.quota_exhausted /\ grReq.tier = "Standard"
    /\ grReq.scope_info.file_count = 10001
    /\ grReq.system_status.cpu_usage > 800
    /\ grRes.warnings = <<"No read access to specified scope">>
    /\ DOMAIN grRes.quotas = {}


(***************************************************************************)
(* Claims about SuggestFolderTool                                          *)
(***************************************************************************)
\* C2: the alternatives of a returned PathSuggestion never contain its primary_path.
C2_AlternativesExcludePrimary ==
    (sfOut.made /\ sfOut.raised = "") =>
        sfOut.primary_path \notin SeqElems(sfOut.alternatives)

\* C3: the alternatives of a returned PathSuggestion are at most 5 and pairwise
\* different, whatever the tags and the category-specific suggestions.
C3_AlternativesBoundedUnique ==
    /\ sfOut.made => (Len(sfOut.alternatives) <= 5 /\ NoDuplicates(sfOut.alternatives))
    /\ sfOut2.made => (Len(sfOut2.alternatives) <= 5 /\ NoDuplicates(sfOut2.alternatives))

\* a photo with a camera make and two tags that clean to the same text: eight raw
\* alternatives, two of them repeats, five returned
C3_Witness ==
    /\ sfOut.made /\ sfOut.raised = "" /\ ~sfOut.failed
    /\ sfReq.classification.primary_category = "photos"
    /\ sfReq.classification.tags = <<"a_b", "a b">>
    /\ sfReq.exif_data.camera.make = "Apple Inc"
    /\ Len(sfOut.alternatives) = 5

\* C8: execute never raises, and when path planning fails internally it returns
\* primary_path 'Unsorted/{Category}' with an error line as reasoning.
C8_NeverRaisesFallsBack ==
    sfOut.made =>
        /\ sfOut.raised = ""
        /\ sfOut.failed =>
               /\ sfOut.primary_path
                      = "Unsorted/" \o Capitalize(sfReq.classification.primary_category)
               /\ Len(sfOut.reasoning) = 1
               /\ StartsWith(sfOut.reasoning[1], "Error in path generation")

\* C10: a second call with identical inputs returns what the first returned, whenever
\* it is made (SuggestFolderTool and ClassifyFileTool).
C10_RepeatedCallsAgree ==
    /\ sfPc = "repeated" => sfOut2 = sfOut
    /\ cfPc = "repeated" => cfOut2 = cfOut


(***************************************************************************)
(* Claims about the JSON function wrappers.                                *)
(***************************************************************************)
\* the input string is no JSON document, or a document that is no object
BadWrapperInput == wrOut.made /\ TryFault(json_loads(wrCall.input)) # ""

\* C6: whatever the input string, valid JSON or not, each of the five wrappers
\* returns an error-shaped response that carries an error string; no exception
\* leaves the wrapper.
C6_WrappersReturnErrorResponse ==
    BadWrapperInput => (wrOut.raised = "" /\ wrOut.handled /\ wrOut.message # None)

(***************************************************************************)
(* Claims about ClassifyFileTool.                                          *)
(***************************************************************************)
\* the except branch of execute was taken: its note is the last one
ClassifyFaulted(out) ==
    /\ out.made /\ out.processing_notes # <<>>
    /\ StartsWith(out.processing_notes[Len(out.processing_notes)], "Classification error: ")

\* C9: when an exception occurs inside execute, the Classification returned has
\* primary_category "unknown", a confidence of 0.0 or the one computed before the
\* fault, and a diagnostic note appended.
C9_FaultLeavesUnknown ==
    ClassifyFaulted(cfOut) =>
        /\ cfOut.primary_category = "unknown"
        /\ cfOut.confidence \in {0, 10, 70}


(***************************************************************************)
(* Claims about ClassifyFileTool followed by SuggestFolderTool.            *)
(***************************************************************************)
\* both tools returned a result of their try block
PipelineDone ==
    /\ cfPc = "called" /\ sfPc = "called"
    /\ ~ClassifyFaulted(cfOut) /\ sfOut.raised = "" /\ ~sfOut.failed

\* C11: the suggested_folder embedded in the Classification equals the primary_path
\* SuggestFolderTool.execute produces for that classification and the same EXIF data.
C11_EmbeddedFolderIsPrimaryPath ==
    PipelineDone => cfOut.suggested_folder = sfOut.primary_path


\* C12: the confidence of the Classification and the confidence of the PathSuggestion
\* lie in [0,1] (0..100 hundredths), also when the filename, content, EXIF and size
\* refinements all fire on a file of a matched category.
C12_ConfidencesInUnitInterval ==
    /\ cfOut.made => (cfOut.confidence >= 0 /\ cfOut.confidence <= 100)
    /\ (sfOut.made /\ sfOut.raised = "") => (sfOut.confidence >= 0 /\ sfOut.confidence <= 100)

\* a small JPEG named IMG_20230815.jpg from a phone, with a long text about an amount
\* due: all four refinements fire (0.1 + 0.2 + 0.1 + 0.05), and the planner has run
C12_Witness ==
    /\ PipelineDone
    /\ cfOut.primary_category = "photos"
    /\ cfOut.confidence_boost = 45
    /\ cfOut.confidence = 70
    /\ sfOut.confidence = 80


\* the refinements that fired in a call, read off its result: the first three leave
\* a note, the size heuristic only its 0.05 in confidence_boost
FiredSignals(out) ==
    {s \in {"Filename", "Content", "EXIF"} :
         \E i \in 1..Len(out.processing_notes) :
             StartsWith(out.processing_notes[i], s \o " suggests: ")}
    \cup (IF out.confidence_boost % 10 = 5 THEN {"Size"} ELSE {})

\* two calls that got through their try block with the same base category
SameBaseCategory ==
    /\ cfPc = "varied"
    /\ ~ClassifyFaulted(cfOut) /\ ~ClassifyFaulted(cfOut2)
    /\ cfOut.primary_category = cfOut2.primary_category

\* C13: for the same base category, a call on which more refinements fire (filename,
\* content, EXIF, size) reports no lower confidence than one on which fewer fire, and
\* a file of category unknown on which none fires has confidence <= 0.1.
C13_SignalsNeverLowerConfidence ==
    /\ (SameBaseCategory /\ FiredSignals(cfOut) \subseteq FiredSignals(cfOut2)) =>
           cfOut2.confidence >= cfOut.confidence
    /\ (SameBaseCategory /\ FiredSignals(cfOut2) \subseteq FiredSignals(cfOut)) =>
           cfOut.confidence >= cfOut2.confidence
    /\ \A out \in {cfOut, cfOut2} :
           ( /\ out.made /\ ~ClassifyFaulted(out)
             /\ out.primary_category = "unknown" /\ FiredSignals(out) = {} ) =>
               out.confidence <= 10

\* data.xyz with a size and no text: unknown, nothing fires, confidence 0.1; the
\* same file with its size missing: the size heuristic fires, confidence still 0.1
C13_Witness ==
    /\ SameBaseCategory
    /\ cfOut.primary_category = "unknown"
    /\ FiredSignals(cfOut) = {} /\ FiredSignals(cfOut2) = {"Size"}
    /\ cfOut.confidence = 10 /\ cfOut2.confidence = 10


(***************************************************************************)
(* Claims about ExtractExifTool.                                           *)
(***************************************************************************)
\* _extract_gps returned the coordinates of a dict that holds both references
GpsConverted ==
    /\ exPc = "done" /\ exGps.present
    /\ {"gps_latitude_ref", "gps_longitude_ref"} \subseteq exRaw.keys

\* C14: for every magnitude >= 0, a coordinate converts to the magnitude when its
\* reference is north (latitude) or east (longitude), and to minus the magnitude
\* when it is south or west.
C14_GpsSignFollowsReference ==
    GpsConverted =>
        /\ exRaw.gps_latitude >= 0 =>
               exGps.lat = IF exRaw.gps_latitude_ref \in {"N", "n"} THEN exRaw.gps_latitude
                           ELSE 0 - exRaw.gps_latitude
        /\ exRaw.gps_longitude >= 0 =>
               exGps.lng = IF exRaw.gps_longitude_ref \in {"E", "e"} THEN exRaw.gps_longitude
                           ELSE 0 - exRaw.gps_longitude

\* 37.7749 S, 122.4194 W: both coordinates negated
C14_Witness ==
    /\ GpsConverted
    /\ exRaw.gps_latitude = 377749 /\ exRaw.gps_latitude_ref = "S"
    /\ exRaw.gps_longitude = 1224194 /\ exRaw.gps_longitude_ref = "W"
    /\ exGps.lat = -377749 /\ exGps.lng = -1224194


(***************************************************************************)
(* Scenarios through both tools.                                           *)
(***************************************************************************)
\* the file classified has a photo extension and EXIF data with a capture timestamp
\* that parses; its classification, handed to the planner, is no screenshot and no
\* professional photo
DatedPhotoPlanned ==
    /\ cfPc = "called" /\ sfPc = "called"
    /\ cfReq.file_key # None /\ cfReq.metadata.is_dict
    /\ Lower(SplitExt(Basename(cfReq.file_key))) \in categories[1].extensions
    /\ HasDatetime(cfReq.exif_data) /\ fromisoformat(cfReq.exif_data.datetime).err = ""
    /\ cfOut.subcategory \notin {"screenshot", "professional_photo"}
    /\ ~AnyTag(cfOut.tags, "screenshot")

\* C15: such a file is classified as photos and planned to
\* 'Photos/{year}/{MM}-{MonthName}' of its timestamp, also when GPS is present.
C15_DatedPhotoGoesToYearMonth ==
    DatedPhotoPlanned =>
        /\ cfOut.primary_category = "photos"
        /\ sfOut.made /\ sfOut.raised = "" /\ ~sfOut.failed
        /\ LET date_obj == fromisoformat(cfReq.exif_data.datetime)
           IN  sfOut.primary_path
                   = "Photos/" \o ToString(date_obj.year) \o "/"
                     \o TwoDigits(date_obj.month) \o "-" \o MonthNames[date_obj.month]

\* IMG_20230815.jpg of 3 MB captured 2023-08-15T14:30:25, with GPS
C15_Witness ==
    /\ DatedPhotoPlanned
    /\ cfReq.file_key = "inbox/IMG_20230815.jpg"
    /\ cfReq.metadata.size = 3145728
    /\ cfReq.exif_data.datetime = "2023-08-15T14:30:25" /\ cfReq.exif_data.gps
    /\ cfOut.primary_category = "photos"
    /\ sfOut.primary_path = "Photos/2023/08-August"


\* invoice_final.pdf with a text that mentions an amount due, classified and planned
InvoiceScenario ==
    /\ cfPc = "called" /\ sfPc = "called"
    /\ cfReq.file_key = "invoice_final.pdf" /\ cfReq.metadata.is_dict
    /\ Contains(Lower(cfReq.text_content), "amount due")
    /\ ~ClassifyFaulted(cfOut)

\* C16: invoice_final.pdf with text containing 'amount due' gets subcategory invoice
\* whatever its metadata (size present, absent or 0; any MIME type) and the length
\* of the text, and the planner puts it in 'Documents/Financial/Invoices'.
C16_InvoiceScenario ==
    InvoiceScenario =>
        /\ cfOut.subcategory = "invoice"
        /\ sfOut.primary_path = "Documents/Financial/Invoices"


(***************************************************************************)
(* Claims about the refinements of ClassifyFileTool.                       *)
(***************************************************************************)
\* the increment the claim gives each refinement, in hundredths
ClaimedIncrement(signal) ==
    CASE signal = "Filename" -> 10 [] signal = "Content" -> 20
      [] signal = "EXIF" -> 10 [] signal = "Size" -> 5

RECURSIVE SumOfIncrements(_)
SumOfIncrements(signals) ==
    IF signals = {} THEN 0
    ELSE LET s == CHOOSE x \in signals : TRUE
         IN  ClaimedIncrement(s) + SumOfIncrements(signals \ {s})

\* C18: the confidence reported is the base value (0.7 for a matched category, 0.1
\* for unknown) plus the increments of the refinements that fired (+0.1 filename,
\* +0.2 content, +0.1 EXIF, +0.05 size).
C18_ConfidenceIsBasePlusIncrements ==
    (cfOut.made /\ ~ClassifyFaulted(cfOut)) =>
        cfOut.confidence
            = (IF cfOut.primary_category # "unknown" THEN 70 ELSE 10)
              + SumOfIncrements(FiredSignals(cfOut))


\* what each refinement suggests for the file of the request, in the order filename
\* pattern, content pattern, EXIF hint, size heuristic; None where it does not fire
RefinementSuggestions ==
    LET file_name == Basename(cfReq.file_key)
        file_ext == Lower(SplitExt(file_name))
    IN  << _analyze_filename_patterns(file_name),
           IF Len(cfReq.text_content) > 100 THEN _classify_by_content(cfReq.text_content)
           ELSE None,
           IF ExifTruthy(cfReq.exif_data) /\ file_ext \in {".jpg", ".jpeg", ".tiff", ".raw"}
           THEN _classify_by_exif(cfReq.exif_data) ELSE None,
           _classify_by_size(IF cfReq.metadata.has_size THEN cfReq.metadata.size ELSE 0,
                             file_ext) >>

\* the suggestion of the last refinement that fired, None when none did
LastSuggestion(suggestions) ==
    LET fired == {i \in 1..Len(suggestions) : suggestions[i] # None}
    IN  IF fired = {} THEN None
        ELSE suggestions[CHOOSE i \in fired : \A j \in fired : j <= i]

\* C20: the subcategory of a classification is the suggestion of the last refinement
\* that fired, in the order filename pattern, content pattern, EXIF hint, size
\* heuristic; a refinement that does not fire leaves it as it was.
C20_LastRefinementWins ==
    (cfOut.made /\ ~ClassifyFaulted(cfOut)) =>
        cfOut.subcategory = LastSuggestion(RefinementSuggestions)

\* the filename suggests photo, the content invoice, the EXIF data mobile_photo and
\* the size thumbnail: the subcategory is thumbnail
C20_Witness ==
    /\ cfOut.made /\ ~ClassifyFaulted(cfOut)
    /\ RefinementSuggestions = <<"photo", "invoice", "mobile_photo", "thumbnail">>
    /\ cfOut.subcategory = "thumbnail"


(***************************************************************************)
(* Claims about the rule chains of SuggestFolderTool.                      *)
(***************************************************************************)
\* a tag that names a person or the family: 'person' not as the start of 'personal',
\* the prefix of the classifier's personal keyword tags
ClaimedPersonTag(tag) ==
    \/ Contains(tag, "family")
    \/ \E i \in 1..(Len(tag) - 5) :
           /\ SubSeq(tag, i, i + 5) = "person"
           /\ ~(i + 7 <= Len(tag) /\ SubSeq(tag, i, i + 7) = "personal")

\* the event keywords some tag holds
EventsPresent(tags) ==
    {e \in SeqElems(EventKeywords) : \E i \in 1..Len(tags) : Contains(tags[i], e)}

\* the paths the rule chain of the claim allows for a photo; a timestamp counts as
\* present when it is a string that parses
ClaimedPhotoPaths(classification, exif_data, clock) ==
    IF classification.subcategory = "screenshot" \/ AnyTag(classification.tags, "screenshot")
    THEN {"Photos/Screenshots"}
    ELSE IF classification.subcategory = "professional_photo" THEN {"Photos/Professional"}
    ELSE IF HasDatetime(exif_data) /\ fromisoformat(exif_data.datetime).err = ""
    THEN LET date_obj == fromisoformat(exif_data.datetime)
         IN  { "Photos/" \o ToString(date_obj.year) \o "/" \o TwoDigits(date_obj.month)
               \o "-" \o MonthNames[date_obj.month] }
    ELSE IF HasGps(exif_data) THEN {"Photos/Travel"}
    ELSE IF \E i \in 1..Len(classification.tags) : ClaimedPersonTag(classification.tags[i])
    THEN {"Photos/People"}
    ELSE IF EventsPresent(classification.tags) # {}
    THEN {"Photos/Events/" \o Title(e) : e \in EventsPresent(classification.tags)}
    ELSE {"Photos/Camera Roll/" \o ToString(clock.year)}

\* C21: for a photo the plan returned is that of the first matching rule in the order
\* screenshot, professional photo, capture timestamp, GPS, person/family tag, event
\* keyword, Camera Roll of the current year.
C21_PhotoRuleOrder ==
    ( /\ sfOut.made /\ sfOut.raised = "" /\ ~sfOut.failed
      /\ sfReq.classification.primary_category = "photos" ) =>
        sfOut.primary_path \in ClaimedPhotoPaths(sfReq.classification, sfReq.exif_data, now)


(***************************************************************************)
(* Claims about ExtractExifTool.execute                                    *)
(***************************************************************************)
\* execute ran on a file that supports EXIF and the reader answered a dict
ExifRead ==
    /\ exOut.made /\ exOut.file_key # None /\ _supports_exif(exOut.file_key)
    /\ exRaw.keys # {}

\* the string under key is there and does not parse as YYYY:MM:DD HH:MM:SS
Unparseable(key, value) ==
    /\ key \in exRaw.keys /\ value # NotAString /\ _normalize_datetime(value) = None

\* what the result should hold for the timestamp under key
ClaimedTimestamp(key, value) ==
    IF key \in exRaw.keys /\ value # NotAString THEN _normalize_datetime(value) ELSE None

\* C22: when a timestamp field of the EXIF data is a string that does not parse in
\* the format YYYY:MM:DD HH:MM:SS, execute drops that field and records a
\* processing note for it, and still returns the other timestamp fields and the
\* GPS, camera and image data of the file.
C22_UnparseableTimestampDropped ==
    ( /\ ExifRead
      /\ NotAString \notin { exRaw.datetime_original, exRaw.datetime_digitized,
                              exRaw.datetime_modified }
      /\ \/ Unparseable("datetime_original", exRaw.datetime_original)
         \/ Unparseable("datetime_digitized", exRaw.datetime_digitized)
         \/ Unparseable("datetime_modified", exRaw.datetime_modified) ) =>
        /\ exOut.processing_notes # <<>>
        /\ exOut.datetime = ClaimedTimestamp("datetime_original", exRaw.datetime_original)
        /\ exOut.datetime_digitized =
               ClaimedTimestamp("datetime_digitized", exRaw.datetime_digitized)
        /\ exOut.datetime_modified =
               ClaimedTimestamp("datetime_modified", exRaw.datetime_modified)
        /\ exOut.gps = _extract_gps(exRaw)
        /\ exOut.camera = _extract_camera_info(exRaw)
        /\ exOut.image_info = _extract_image_info(exRaw)


(***************************************************************************)
(* Claims about unreadable entries and has_more of ListFilesTool           *)
(***************************************************************************)
\* the walk reaches the entry and the hidden and extension filters let it through
EntryWanted(entry, filters) ==
    /\ IncludeHidden(filters) \/ ~StartsWith(entry.dir, ".")
    /\ IncludeHidden(filters) \/ ~StartsWith(entry.name, ".")
    /\ _matches_extension_filter(entry.name, filters)

\* the wanted entries of the scope that cannot be read: stat fails in the walk, or
\* the size passes the filter and the lookup of _get_file_info fails
UnreadableEntries ==
    { i \in 1..Len(lfEntries) :
        /\ EntryWanted(lfEntries[i], lfFilters)
        /\ \/ ~lfEntries[i].statOk
           \/ ~lfEntries[i].infoOk /\ _matches_size_filter(lfEntries[i].size, lfFilters) }

\* the wanted entries that can be read and pass the size filter
ReadableEntries ==
    { i \in 1..Len(lfEntries) :
        /\ EntryWanted(lfEntries[i], lfFilters)
        /\ lfEntries[i].statOk /\ lfEntries[i].infoOk
        /\ _matches_size_filter(lfEntries[i].size, lfFilters) }

\* the first call on a local scope walked the whole scope in one page
WholeLocalScopeListed ==
    /\ lfResp.made /\ lfResp.cursor = None /\ lfResp.error = None
    /\ ~IsS3(lfScope) /\ ~lfResp.has_more

\* C23: when entries of a local scope cannot be read, the page leaves them out of
\* files, scan_stats.errors_encountered counts them, and the other entries are
\* still returned.
C23_UnreadableEntriesSkippedAndCounted ==
    (WholeLocalScopeListed /\ UnreadableEntries # {}) =>
        /\ \A k \in 1..Len(lfResp.files) : lfResp.files[k].idx \notin UnreadableEntries
        /\ lfResp.errors_encountered = Cardinality(UnreadableEntries)
        /\ ReadableEntries = { lfResp.files[k].idx : k \in 1..Len(lfResp.files) }

\* the part of C23 the code keeps when stat fails in the walk
C23_Probe ==
    (WholeLocalScopeListed /\ UnreadableEntries # {}) =>
        /\ \A k \in 1..Len(lfResp.files) : lfEntries[lfResp.files[k].idx].statOk
        /\ ReadableEntries \subseteq { lfResp.files[k].idx : k \in 1..Len(lfResp.files) }


\* C24: in every result of execute with has_exif false (unsupported extension, or
\* no EXIF data found), every optional field is absent: datetime and gps are null,
\* camera and image_info are empty and orientation is unset.
C24_NoExifMeansNoFields ==
    (exOut.made /\ ~exOut.has_exif) =>
        /\ exOut.datetime = None
        /\ exOut.datetime_digitized = None /\ exOut.datetime_modified = None
        /\ ~exOut.gps.present
        /\ ~exOut.camera.present /\ exOut.camera.make = None /\ exOut.camera.flash = None
        /\ ~exOut.image_info.present /\ exOut.image_info.width = 0
        /\ exOut.orientation = 0

\* a file with an unsupported extension was answered although the reader had data
C24_Witness ==
    /\ exOut.made /\ ~exOut.has_exif /\ exOut.file_key = "notes.txt"
    /\ exRaw.keys = ExifKeys
    /\ exOut.processing_notes = <<"File type does not support EXIF metadata">>


\* the labels the decoders give to the codes of their tables
FlashLabels == { _decode_flash(v) : v \in {0, 1, 5, 7, 9, 13, 15, 16, 24, 25, 29, 31} }
ExposureLabels == { _decode_exposure_program(v) : v \in 0..8 }
MeteringLabels == { _decode_metering_mode(v) : v \in 0..6 }
WhiteBalanceLabels == { DecodeWhiteBalance(v) : v \in {0, 1} }

\* execute extracted the camera data of a dict that holds the four coded fields
CodesDecoded ==
    /\ ExifRead /\ exOut.has_exif /\ exOut.processing_notes = <<>>
    /\ {"flash", "exposure_program", "metering_mode", "white_balance"} \subseteq exRaw.keys

\* C25: each coded field present in the EXIF data (flash, exposure program,
\* metering mode, white balance) is decoded through its table, and a code outside
\* the table yields a fallback label: never an absent field and never the label
\* of a recognized code.
C25_UnknownCodesGetFallbackLabel ==
    CodesDecoded =>
        /\ exOut.camera.flash # None /\ exOut.camera.exposure_program # None
        /\ exOut.camera.metering_mode # None /\ exOut.camera.white_balance # None
        /\ exRaw.flash \notin {0, 1, 5, 7, 9, 13, 15, 16, 24, 25, 29, 31} =>
               exOut.camera.flash \notin FlashLabels
        /\ exRaw.exposure_program \notin 0..8 =>
               exOut.camera.exposure_program \notin ExposureLabels
        /\ exRaw.metering_mode \notin 0..6 =>
               exOut.camera.metering_mode \notin MeteringLabels
        /\ exRaw.white_balance \notin {0, 1} =>
               exOut.camera.white_balance \notin WhiteBalanceLabels

\* the same without white balance: the three decoders with a table
C25_Probe ==
    CodesDecoded =>
        /\ exRaw.flash \notin {0, 1, 5, 7, 9, 13, 15, 16, 24, 25, 29, 31} =>
               exOut.camera.flash = "Flash mode " \o ToString(exRaw.flash)
        /\ exRaw.exposure_program \notin 0..8 =>
               exOut.camera.exposure_program
                   = "Program mode " \o ToString(exRaw.exposure_program)
        /\ exRaw.metering_mode \notin 0..6 =>
               exOut.camera.metering_mode = "Metering mode " \o ToString(exRaw.metering_mode)


(***************************************************************************)
(* Claims about the tags of ClassifyFileTool                               *)
(***************************************************************************)
\* C26: the tags list of every classification execute returns contains no tag
\* twice, the content-analysis tags that are appended after the de-duplication
\* included.
C26_TagsHaveNoDuplicate ==
    (cfOut.made => NoDuplicates(cfOut.tags))
    /\ (cfOut2.made => NoDuplicates(cfOut2.tags))

\* a classification with tags from the text and the two content-analysis tags
C26_Witness ==
    /\ cfOut.made /\ cfReq.text_content = "family meeting"
    /\ "short_note" \in SeqElems(cfOut.tags) /\ "words_0+" \in SeqElems(cfOut.tags)
    /\ "personal_family" \in SeqElems(cfOut.tags)
    /\ "final_version" \in SeqElems(cfOut.tags)


\* the page returned files; the index of its last file in the traversal
PageReturned == lfResp.made /\ lfResp.error = None /\ lfResp.files # <<>>
LastReturned == lfResp.files[Len(lfResp.files)].idx

\* a file that the walk yields (local) or a listed object that passes the filters
\* (s3://, looked at over the next S3Window objects) follows the last returned file
MatchingFileFollows ==
    IF IsS3(lfScope)
    THEN \E i \in (LastReturned + 1)..(LastReturned + S3Window) :
             S3ObjectPasses(MockS3Object(lfScope, i), lfFilters)
    ELSE \E i \in (LastReturned + 1)..Len(lfEntries) :
             LocalEntryPasses(lfEntries[i], lfFilters)

\* C27: in every response of execute, has_more is true exactly when next_cursor
\* is present, and exactly when at least one matching file follows the last file
\* of the returned page in the traversal of the scope (local or s3://).
C27_HasMoreIffFileFollows ==
    /\ (lfResp.made => (lfResp.has_more <=> lfResp.next_cursor # None))
    /\ (PageReturned => (lfResp.has_more <=> MatchingFileFollows))

\* the two parts of C27 the code keeps: the cursor part, and the local scopes
C27_Probe ==
    /\ (lfResp.made => (lfResp.has_more <=> lfResp.next_cursor # None))
    /\ (PageReturned /\ ~IsS3(lfScope) => (lfResp.has_more <=> MatchingFileFollows))


(***************************************************************************)
(* Claims about the order of the tags                                      *)
(***************************************************************************)
\* both plans were returned, for the tags in one order and in the other
BothOrdersPlanned ==
    /\ sfPc = "reordered"
    /\ sfOut.made /\ sfOut.raised = "" /\ sfOut2.made /\ sfOut2.raised = ""

\* C28: the primary_path and the alternatives of execute depend only on the set
\* of tags of the classification: two classifications that differ only in the
\* order of their tags get the same primary_path and the same alternatives
\* (compared here as sets of paths).
C28_PlanIgnoresTagOrder ==
    BothOrdersPlanned =>
        /\ sfOut2.primary_path = sfOut.primary_path
        /\ SeqElems(sfOut2.alternatives) = SeqElems(sfOut.alternatives)

\* the categories with a rule chain of their own keep the primary path
C28_Probe ==
    ( /\ BothOrdersPlanned
      /\ sfReq.classification.primary_category \in {"photos", "documents", "videos", "audio"} )
        => sfOut2.primary_path = sfOut.primary_path


(***************************************************************************)
(* Claims about the EXIF record between ExtractExifTool and the classifier *)
(***************************************************************************)
\* a file of an EXIF extension was extracted with the camera make of a phone and
\* classified with the extracted record, and the size heuristic did not fire
PhoneRecordClassified ==
    /\ exPc = "extracted" /\ cfPc = "called" /\ cfOut.made
    /\ exOut.has_exif /\ exOut.camera.present
    /\ SearchWords(Lower(exOut.camera.make), {"apple", "samsung", "google", "huawei"})
    /\ Lower(SplitExt(exOut.file_key)) \in {".jpg", ".jpeg", ".tiff", ".raw"}
    /\ _classify_by_size(cfReq.metadata.size, Lower(SplitExt(exOut.file_key))) = None

\* C29: an EXIF record in the shape execute of ExtractExifTool produces (make,
\* model and software under camera), passed to ClassifyFileTool.execute for a
\* .jpg, .jpeg, .tiff or .raw file, triggers the EXIF hint: a camera make of
\* Apple, Samsung, Google or Huawei gives subcategory mobile_photo and an
\* increment of 0.1, unless the size heuristic fires afterwards.
C29_ExtractedRecordTriggersHint ==
    PhoneRecordClassified =>
        /\ cfOut.subcategory = "mobile_photo"
        /\ "EXIF suggests: mobile_photo" \in SeqElems(cfOut.processing_notes)
        /\ cfOut.confidence_boost >= 10


(***************************************************************************)
(* Claims about _classify_by_extension                                     *)
(***************************************************************************)
\* the names of the categories whose extension list, or whose MIME type list,
\* holds the value
CategoriesOfExtension(extension) ==
    { categories[i].name : i \in {j \in 1..Len(categories) :
                                      extension \in categories[j].extensions} }
CategoriesOfMime(mime_type) ==
    { categories[i].name : i \in {j \in 1..Len(categories) :
                                      mime_type \in categories[j].mimetypes} }

\* execute classified a named file with a metadata dict
BasicallyClassified ==
    cfOut.made /\ cfReq.file_key # None /\ cfReq.metadata.is_dict

\* C30: _classify_by_extension gives a file whose extension is in some category's
\* extension list that category as primary_category, whatever MIME type the
\* metadata carries; the MIME type decides the category only when the extension
\* is in no category's list.
C30_ExtensionBeforeMime ==
    BasicallyClassified =>
        LET extension == Lower(SplitExt(Basename(cfReq.file_key)))
            mime_type == cfReq.metadata.mime_type
        IN  IF CategoriesOfExtension(extension) # {}
            THEN cfOut.primary_category \in CategoriesOfExtension(extension)
            ELSE IF mime_type # None /\ CategoriesOfMime(mime_type) # {}
            THEN cfOut.primary_category \in CategoriesOfMime(mime_type)
            ELSE cfOut.primary_category = "unknown"

\* what holds instead: the category is one the extension or the MIME type names
C30_Probe ==
    BasicallyClassified =>
        LET extension == Lower(SplitExt(Basename(cfReq.file_key)))
            mime_type == cfReq.metadata.mime_type
            named == CategoriesOfExtension(extension)
                         \cup (IF mime_type = None THEN {} ELSE CategoriesOfMime(mime_type))
        IN  IF named = {} THEN cfOut.primary_category = "unknown"
            ELSE cfOut.primary_category \in named

====
